---- MODULE Spec2Model ----
(***************************************************************************)
(* A model of TkFire (src/tkfire.py, src/dispatching.py): the builder that *)
(* walks the declarative tree ("mother"), resolves references against the  *)
(* Shared Storage ("memory"), constructs the widgets parent-before-child   *)
(* and records them in the Registry ("gui").                               *)
(*                                                                         *)
(* Python values are tagged records.  A string of the program is a         *)
(* sequence of tokens where it is concatenated or split (paths, names),    *)
(* and a TLA+ string where it is only compared (keywords, memory keys).    *)
(* Calls into the toolkit and into the callables of the memory are opaque: *)
(* each returns a fresh object and is recorded in the call log.            *)
(***************************************************************************)
EXTENDS Integers, Sequences, FiniteSets, TLC

\* ---------------------------------------------------------------- bounds
\* Longest positional argument list of the single-node trees.
MaxArgs == 2
\* Number of post-steps of the node kinds that declare post-steps.
MaxPosts == 2
\* Number of calls of set_optionmenu_options after build().
MaxOps == 2
\* Number of menu entries picked after build().
MaxPicks == 1
\* Number of further calls of build() after the first has returned.
MaxBuilds == 1

\* ------------------------------------------------------------- constants
LAYOUT == "LAYOUT"
TYPE == "TYPE"
CHILDREN == "CHILDREN"
POST == "POST"
SY == "scrolly"
SX == "scrollx"
\* The path delimiter, as one token of a path.
Bang == "!"

\* ---------------------------------------------------------------- values
Lit(s) == [tag |-> "lit", v |-> s]
ListV(items) == [tag |-> "list", items |-> items]
DictV(items) == [tag |-> "dict", pairs |-> items]
PairV(a, b) == [tag |-> "pair", fst |-> a, snd |-> b]
NoneV == [tag |-> "none"]
\* A class or function of the caller: calling it yields an object, which is
\* itself callable or not (tk.IntVar instances are not).
Factory(id, makes_callable) == [tag |-> "factory", id |-> id, makes_callable |-> makes_callable]
Obj(n, cls, callable, by) == [tag |-> "obj", id |-> n, cls |-> cls, callable |-> callable, by |-> by]

VarSpec(name, args, kwargs) == [tag |-> "varspec", name |-> name, args |-> args, kwargs |-> kwargs]
VarArg(name, unpack) == [tag |-> "varg", name |-> name, unpack |-> unpack]
Stub == [tag |-> "Stub"]
StubObj(n, layout_type, layout_args, layout_kwargs) ==
    [tag |-> "stub", id |-> n, layout |-> <<layout_type, layout_args, layout_kwargs>>]

spec(constructor, args, kwargs) == <<constructor, args, kwargs>>
post(callable_attribute, args, kwargs) == spec(callable_attribute, args, kwargs)
stub == spec(Stub, <<>>, <<>>)

\* ------------------------------------------------- ordered dictionaries
\* A Python dict is a sequence of <<key, value>> pairs with distinct keys, in
\* insertion order.
DictKeys(d) == {d[i][1] : i \in 1..Len(d)}
DictHas(d, k) == \E i \in 1..Len(d) : d[i][1] = k
DictGet(d, k) == d[CHOOSE i \in 1..Len(d) : d[i][1] = k][2]
DictSet(d, k, v) ==
    IF DictHas(d, k)
    THEN [i \in 1..Len(d) |-> IF d[i][1] = k THEN <<k, v>> ELSE d[i]]
    ELSE Append(d, <<k, v>>)
DictSetDefault(d, k, v) == IF DictHas(d, k) THEN d ELSE Append(d, <<k, v>>)
DictPop(d, k) == SelectSeq(d, LAMBDA kv : kv[1] # k)

\* list.pop(i)
SeqPop(s, i) == [j \in 1..(Len(s) - 1) |-> IF j < i THEN s[j] ELSE s[j + 1]]

\* finite maps (Python dicts whose order is never observed)
MapSet(f, k, v) == [x \in (DOMAIN f) \cup {k} |-> IF x = k THEN v ELSE f[x]]

\* ------------------------------------------------------ opaque callables
\* Mutant of Callable: whatever is given as a constructor can be called.
CallableAnything(c) == c.tag \in {"factory", "obj", "lit"}

\* constructor(root, *args, **kwargs): a class or function returns a fresh
\* object; an object that is not callable raises TypeError.
Callable(c) == c.tag = "factory" \/ (c.tag = "obj" /\ c.callable)
CallResult(c, n) ==
    IF c.tag = "factory" THEN Obj(n, "inst", c.makes_callable, c.id)
    ELSE Obj(n, "inst", TRUE, "call")

\* The characters of the strings that the model's memories let the program
\* iterate over.
Chars(s) ==
    CASE s = "ab" -> <<"a", "b">>
      [] s = "hi" -> <<"h", "i">>
      [] s = "text" -> <<"t", "e", "x", "t">>
      [] s = "x" -> <<"x">>
      [] s = "y" -> <<"y">>
      [] s = "z" -> <<"z">>

\* iter(v): the elements a for loop over v yields, or TypeError.
Iterable(v) == v.tag \in {"list", "dict", "pair", "lit"}
IterItems(v) ==
    CASE v.tag = "list" -> v.items
      [] v.tag = "dict" -> [i \in 1..Len(v.pairs) |-> Lit(v.pairs[i][1])]
      [] v.tag = "pair" -> <<v.fst, v.snd>>
      [] v.tag = "lit" -> [i \in 1..Len(Chars(v.v)) |-> Lit(Chars(v.v)[i])]

\* ------------------------------------------------------ class Memory
\* Mutant of MemoryContains: the containment test of a plain dict, which
\* knows no reference markers.
MemoryContainsPlain(mem, item) == item.tag = "lit" /\ item.v \in DOMAIN mem

\* Memory.__contains__ (src/dispatching.py:25-31): a reference marker stands
\* for its name; an unhashable item is not contained.
MemKey(item) == IF item.tag \in {"varg", "varspec"} THEN item.name ELSE item.v
MemoryContains(mem, item) ==
    /\ item.tag \in {"varg", "varspec", "lit"}
    /\ MemKey(item) \in DOMAIN mem
\* Memory.__getitem__ (src/dispatching.py:33-36); the caller checks the key.
MemoryGet(mem, item) == mem[MemKey(item)]

\* Mutant of construct: the reference's positional arguments are not passed.
constructWithoutArgs(ref, root, constructor, n) ==
    [raised |-> IF Callable(constructor) THEN "" ELSE "TypeError",
     result |-> IF Callable(constructor) THEN CallResult(constructor, n) ELSE NoneV,
     call |-> [callee |-> constructor, root |-> root, args |-> <<>>, kwargs |-> ref.kwargs]]

\* VarSpec.construct (src/dispatching.py:165-166): constructor(root,
\* *self.args, **self.kwargs).  call is the call made; n is the identity of
\* the object a successful call returns.
construct(ref, root, constructor, n) ==
    IF Callable(constructor)
    THEN [raised |-> "", result |-> CallResult(constructor, n),
          call |-> [callee |-> constructor, root |-> root,
                    args |-> ref.args, kwargs |-> ref.kwargs]]
    ELSE [raised |-> "TypeError", result |-> NoneV,
          call |-> [callee |-> constructor, root |-> root,
                    args |-> ref.args, kwargs |-> ref.kwargs]]

\* ------------------------------------------------ the Reference Resolver
\* What one turn of a resolution loop leaves: r carries memory,
\* variable_map, nobj, new_args, kwargs and replacer; the result adds the
\* calls made and the exception raised, if any.
Outcome(r) ==
    [memory |-> r.memory, variable_map |-> r.variable_map, nobj |-> r.nobj,
     new_args |-> r.new_args, kwargs |-> r.kwargs, replacer |-> r.replacer,
     calls |-> <<>>, raised |-> ""]

\* value is a constructor (src/tkfire.py:143-145 and 124-126):
\*   self._variable_map[path] = var_name
\*   self.memory[var_name] = value.construct(root, self.memory[var_name])
\* The variable map is written first; a missing name raises KeyError and
\* what is stored under the name is called whatever it is.
BindVariable(value, r, path, root) ==
    LET var_name == value.name
        vm == MapSet(r.variable_map, path, var_name)
    IN IF var_name \notin DOMAIN r.memory
       THEN [Outcome(r) EXCEPT !.variable_map = vm, !.raised = "KeyError"]
       ELSE LET c == construct(value, root, r.memory[var_name], r.nobj + 1)
            IN IF c.raised # ""
               THEN [Outcome(r) EXCEPT !.variable_map = vm, !.raised = c.raised]
               ELSE [Outcome(r) EXCEPT
                       !.variable_map = vm,
                       !.memory = MapSet(r.memory, var_name, c.result),
                       !.nobj = r.nobj + 1,
                       !.calls = <<[name |-> var_name, callee |-> c.call.callee,
                                    root |-> c.call.root, args |-> c.call.args,
                                    kwargs |-> c.call.kwargs, result |-> c.result]>>]

\* for k, v in self.memory[value.name]: kwargs.setdefault(k, v)
\* (src/tkfire.py:152-153), from the i-th item on.  Each item is unpacked into
\* two targets; the keywords set before a failing item stay set.  (A key that
\* is not a string is held to fail here: the model's memories have none.)
RECURSIVE SetDefaults(_, _, _)
SetDefaults(items, i, kwargs) ==
    IF i > Len(items) THEN [raised |-> "", kwargs |-> kwargs]
    ELSE IF ~Iterable(items[i]) THEN [raised |-> "TypeError", kwargs |-> kwargs]
    ELSE IF Len(IterItems(items[i])) # 2 THEN [raised |-> "ValueError", kwargs |-> kwargs]
    ELSE LET kv == IterItems(items[i])
         IN IF kv[1].tag # "lit"
            THEN [raised |-> "TypeError", kwargs |-> kwargs]
            ELSE SetDefaults(items, i + 1, DictSetDefault(kwargs, kv[1].v, kv[2]))

\* value.unpack == 2 (src/tkfire.py:151-153)
Unpack2(stored, r) ==
    IF ~Iterable(stored)
    THEN [Outcome(r) EXCEPT !.raised = "TypeError"]
    ELSE LET sd == SetDefaults(IterItems(stored), 1, r.kwargs)
         IN [Outcome(r) EXCEPT !.kwargs = sd.kwargs, !.raised = sd.raised]

\* Mutant of Unpack1: the stored value is appended as one argument.
Unpack1Whole(stored, r) == [Outcome(r) EXCEPT !.new_args = Append(r.new_args, stored)]

\* value.unpack == 1 (src/tkfire.py:154-156)
Unpack1(stored, r) ==
    IF ~Iterable(stored)
    THEN [Outcome(r) EXCEPT !.raised = "TypeError"]
    ELSE [Outcome(r) EXCEPT !.new_args = r.new_args \o IterItems(stored)]

\* The body of the loop of _sanitize_args (src/tkfire.py:139-164) for one
\* value.
SanitizeArgsValue(value, r, path, root) ==
    IF value.tag = "varspec" THEN
        LET b == BindVariable(value, r, path, root)
        IN IF b.raised # "" THEN b
           ELSE [b EXCEPT !.new_args = Append(r.new_args, b.memory[value.name])]
    ELSE IF MemoryContains(r.memory, value) THEN
        IF value.tag = "varg" THEN
            IF value.unpack = 2 THEN Unpack2(MemoryGet(r.memory, value), r)
            ELSE IF value.unpack = 1 THEN Unpack1(MemoryGet(r.memory, value), r)
            ELSE [Outcome(r) EXCEPT !.new_args = Append(r.new_args, MemoryGet(r.memory, value))]
        ELSE [Outcome(r) EXCEPT !.new_args = Append(r.new_args, MemoryGet(r.memory, value))]
    ELSE [Outcome(r) EXCEPT !.new_args = Append(r.new_args, value)]

\* The body of the first loop of _sanitize_kwargs (src/tkfire.py:121-133) for
\* one keyword.
SanitizeKwargsValue(keyword, value, r, path, root) ==
    IF value.tag = "varspec" THEN
        LET b == BindVariable(value, r, path, root)
        IN IF b.raised # "" THEN b
           ELSE [b EXCEPT !.replacer = Append(r.replacer, <<keyword, b.memory[value.name]>>)]
    ELSE IF MemoryContains(r.memory, value)
    THEN [Outcome(r) EXCEPT !.replacer = Append(r.replacer, <<keyword, MemoryGet(r.memory, value)>>)]
    ELSE Outcome(r)

\* The second loop of _sanitize_kwargs (src/tkfire.py:134-135).
RECURSIVE ApplyReplacer(_, _, _)
ApplyReplacer(kwargs, replacer, i) ==
    IF i > Len(replacer) THEN kwargs
    ELSE ApplyReplacer(DictSet(kwargs, replacer[i][1], replacer[i][2]), replacer, i + 1)

\* ------------------------------------------------------------ the inputs
\* One node of the mother.  tags is the set of keys the node's dictionary
\* has; the children are named by their identifiers in declaration order.
Node(name, tags, type, layout, posts, children) ==
    [name |-> name, tags |-> tags, TYPE |-> type, LAYOUT |-> layout,
     POST |-> posts, CHILDREN |-> children, nones |-> {}]
\* The node n with the value None under a key.
WithNone(n, key) == [n EXCEPT !.tags = @ \cup {key}, !.nones = @ \cup {key}]

Frame == Factory("Frame", FALSE)
Text == Factory("Text", FALSE)
OptionMenu == Factory("OptionMenu", FALSE)
Scrollbar == Factory("Scrollbar", FALSE)
Label == Factory("Label", FALSE)
Core == Obj(0, "core", FALSE, "Tk")

\* The memory the caller passes: two variable factories (the instances of
\* "var" are not callable, as those of tk.IntVar; those of "mk" are), a list,
\* a callable, a mapping, a mapping with a two-character key and a list of
\* key/value pairs.
Memory0 ==
    [var |-> Factory("IntVar", FALSE),
     mk |-> Factory("Maker", TRUE),
     opts |-> ListV(<<Lit("x"), Lit("y")>>),
     cmd |-> Factory("btn_cmd", FALSE),
     kw |-> DictV(<< <<"text", Lit("hi")>> >>),
     kw2 |-> DictV(<< <<"ab", Lit("z")>> >>),
     pairs |-> ListV(<<PairV(Lit("text"), Lit("hi"))>>)]

VarRef == VarSpec("var", <<Lit("v0")>>, <<>>)
MkRef == VarSpec("mk", <<>>, << <<"value", Lit("v1")>> >>)

\* Positional values of the single-node trees.
ArgVals ==
    {Lit("lit"), Lit("cmd"), Lit(SY), ListV(<<Lit("cmd")>>),
     VarArg("opts", 0), VarArg("opts", 1), VarArg("kw", 2), VarArg("kw2", 2),
     VarArg("pairs", 2), VarArg("nokey", 1), VarRef, MkRef}

\* All sequences over S of length at most n.
SeqsUpTo(S, n) == UNION {[1..k -> S] : k \in 0..n}

\* Keyword mappings of the single-node trees.
KwVals ==
    {<<>>,
     << <<"text", Lit("lit")>> >>,
     << <<"command", Lit("cmd")>>, <<"text", ListV(<<Lit("cmd")>>)>>,
        <<"values", VarArg("opts", 1)>> >>,
     << <<"variable", VarRef>>, <<"textvariable", VarRef>> >>,
     << <<"values", VarArg("opts", 1)>>, <<"a", Lit("lit")>>, <<"variable", MkRef>> >>,
     << <<SY, Lit("on")>>, <<"text", VarArg("nokey", 0)>>, <<"extra", VarArg("kw2", 2)>> >>}

PackLayout == spec(Lit("pack"), <<>>, << <<"side", Lit("left")>> >>)
GridLayout == spec(Lit("grid"), <<VarArg("opts", 1)>>, << <<"row", Lit("cmd")>> >>)
NoLayout == spec(NoneV, <<>>, <<>>)

\* The post-steps of a node that declares some: they alternate between a
\* step that binds a constructor-reference and one that reads the memory.
PostList ==
    [i \in 1..MaxPosts |->
        IF i % 2 = 1
        THEN post(Lit("config"), <<Lit("cmd")>>, << <<"variable", MkRef>> >>)
        ELSE post(Lit("insert"), <<MkRef, VarArg("opts", 0)>>, <<>>)]

\* The kinds of node of the multi-node trees.
KPlain(name, ch) ==
    Node(name, {TYPE, LAYOUT, CHILDREN}, spec(Frame, <<>>, << <<"text", Lit("lit")>> >>),
         PackLayout, <<>>, ch)
KScroll(name, ch) ==
    Node(name, {TYPE, CHILDREN}, spec(Text, <<Lit(SX)>>, << <<SY, Lit("on")>> >>),
         NoLayout, <<>>, ch)
KStub(name, ch) ==
    Node(name, {TYPE, LAYOUT, CHILDREN}, stub, GridLayout, <<>>, ch)
KVar(name, ch) ==
    Node(name, {TYPE, LAYOUT, POST, CHILDREN},
         spec(OptionMenu, <<VarRef, Lit(SY), VarArg("opts", 1)>>, <<>>), PackLayout, PostList, ch)
KMk(name, ch) ==
    Node(name, {TYPE, POST, CHILDREN},
         spec(OptionMenu, <<>>, << <<"variable", MkRef>> >>), NoLayout, PostList, ch)
KNoType(name, ch) ==
    Node(name, {LAYOUT, CHILDREN}, <<>>, PackLayout, <<>>, ch)

\* Nodes that make build() fail: a type named by a string, a type or a
\* layout of two elements, a layout of None, a layout method and a post
\* method the widget does not have, and a layout and a post-step whose
\* arguments refer to a name the memory does not have.
NoRef == VarSpec("nokey", <<>>, <<>>)
KSym(name, ch) ==
    Node(name, {TYPE, LAYOUT, CHILDREN},
         spec(Lit("NoSuchWidget"), <<VarRef>>, << <<"text", Lit("lit")>> >>), PackLayout, <<>>, ch)
KShort(name, ch) ==
    Node(name, {TYPE, LAYOUT, CHILDREN}, <<OptionMenu, <<VarRef>>>>, PackLayout, <<>>, ch)
KBadLayout(name, ch) ==
    Node(name, {TYPE, LAYOUT, CHILDREN}, spec(OptionMenu, <<VarRef>>, <<>>),
         <<Lit("pack"), <<>>>>, <<>>, ch)
KNoneLayout(name, ch) ==
    WithNone(Node(name, {TYPE, CHILDREN}, spec(OptionMenu, <<VarRef>>, <<>>), <<>>, <<>>, ch),
             LAYOUT)
KBadRender(name, ch) ==
    Node(name, {TYPE, LAYOUT, CHILDREN}, spec(OptionMenu, <<VarRef>>, <<>>),
         spec(Lit("nomethod"), <<>>, <<>>), <<>>, ch)
KBadPost(name, ch) ==
    Node(name, {TYPE, LAYOUT, POST, CHILDREN}, spec(Frame, <<>>, << <<SY, Lit("on")>> >>),
         PackLayout, <<post(Lit("config"), <<MkRef>>, <<>>), post(Lit("nomethod"), <<>>, <<>>)>>, ch)
\* An option menu bound to a constructor-reference, without post-steps, and
\* one whose variable is no reference (the variable map gets no entry).
KOpt(name, ch) ==
    Node(name, {TYPE, LAYOUT, CHILDREN},
         spec(OptionMenu, <<MkRef, VarArg("opts", 1)>>, <<>>), PackLayout, <<>>, ch)
KOptPlain(name, ch) ==
    Node(name, {TYPE, LAYOUT, CHILDREN},
         spec(OptionMenu, <<Lit("lit"), VarArg("opts", 1)>>, <<>>), PackLayout, <<>>, ch)
\* A node with a constructor-reference among its layout's positional
\* arguments and another among its type's keywords, and a placeholder with a
\* constructor-reference in its layout.
KOrder(name, ch) ==
    Node(name, {TYPE, LAYOUT, CHILDREN}, spec(Frame, <<>>, << <<"variable", MkRef>> >>),
         spec(Lit("pack"), <<VarRef>>, <<>>), <<>>, ch)
KStubRef(name, ch) ==
    Node(name, {TYPE, LAYOUT, CHILDREN}, stub, spec(Lit("grid"), <<MkRef>>, <<>>), <<>>, ch)
\* A widget that has no scroll command, with both scrollbars requested.
KBadScroll(name, ch) ==
    Node(name, {TYPE, LAYOUT, CHILDREN}, spec(Label, <<Lit(SX)>>, << <<SY, Lit("on")>> >>),
         PackLayout, <<>>, ch)
KPostRef(name, ch) ==
    Node(name, {TYPE, LAYOUT, POST, CHILDREN}, spec(Frame, <<>>, <<>>),
         PackLayout, <<post(Lit("config"), <<VarRef>>, << <<"variable", NoRef>> >>)>>, ch)
KLayoutRef(name, ch) ==
    Node(name, {TYPE, LAYOUT, CHILDREN}, spec(Frame, <<>>, <<>>),
         spec(Lit("grid"), <<MkRef, NoRef>>, <<>>), <<>>, ch)

\* A deferred node that declares no layout.
KBareStub(name, ch) == Node(name, {TYPE, CHILDREN}, stub, NoLayout, <<>>, ch)

Kinds == {"plain", "scroll", "stub", "var", "mk", "notype"}
ErrorKinds == {"sym", "short", "badlayout", "nonelayout", "badrender", "badpost",
               "postref", "layoutref", "badscroll"}
MakeNode(kind, name, ch) ==
    CASE kind = "plain" -> KPlain(name, ch)
      [] kind = "scroll" -> KScroll(name, ch)
      [] kind = "stub" -> KStub(name, ch)
      [] kind = "var" -> KVar(name, ch)
      [] kind = "mk" -> KMk(name, ch)
      [] kind = "notype" -> KNoType(name, ch)
      [] kind = "barestub" -> KBareStub(name, ch)
      [] kind = "sym" -> KSym(name, ch)
      [] kind = "short" -> KShort(name, ch)
      [] kind = "badlayout" -> KBadLayout(name, ch)
      [] kind = "nonelayout" -> KNoneLayout(name, ch)
      [] kind = "badrender" -> KBadRender(name, ch)
      [] kind = "badpost" -> KBadPost(name, ch)
      [] kind = "postref" -> KPostRef(name, ch)
      [] kind = "layoutref" -> KLayoutRef(name, ch)
      [] kind = "badscroll" -> KBadScroll(name, ch)
      [] kind = "opt" -> KOpt(name, ch)
      [] kind = "order" -> KOrder(name, ch)
      [] kind = "stubref" -> KStubRef(name, ch)
      [] kind = "optplain" -> KOptPlain(name, ch)

\* A tree with one node: every positional list and keyword mapping.
SingleMothers ==
    {[top |-> <<1>>,
      nodes |-> <<Node(<<"w">>, {TYPE, LAYOUT}, spec(Text, a, k), PackLayout, <<>>, <<>>)>>] :
        a \in SeqsUpTo(ArgVals, MaxArgs), k \in KwVals}

\* The trees a { c { g }, d }, b: node 1 = a, 2 = c, 3 = g, 4 = d, 5 = b.
\* The first child of a is named c or Scrolly.
TreeMothers ==
    {[top |-> <<1, 5>>,
      nodes |-> <<MakeNode(k1, <<"a">>, <<2, 4>>),
                  MakeNode(k2, n2, <<3>>),
                  MakeNode(k3, <<"g">>, <<>>),
                  MakeNode(k4, <<"d">>, <<>>),
                  MakeNode(k5, <<"b">>, <<>>)>>] :
        k1 \in {"plain", "scroll", "stub", "var"},
        k2 \in {"plain", "scroll", "stub", "mk"},
        k3 \in {"plain", "var"},
        k4 \in {"plain", "var", "mk", "notype"},
        k5 \in {"plain", "scroll", "mk"},
        n2 \in {<<"c">>, <<"Scrolly">>}}

\* The same trees with a failing node d, after a node c that fails or not.
ErrorMothers ==
    {[top |-> <<1, 5>>,
      nodes |-> <<MakeNode(k1, <<"a">>, <<2, 4>>),
                  MakeNode(k2, <<"c">>, <<3>>),
                  MakeNode("plain", <<"g">>, <<>>),
                  MakeNode(k4, <<"d">>, <<>>),
                  MakeNode("plain", <<"b">>, <<>>)>>] :
        k1 \in {"plain", "scroll"},
        k2 \in {"plain", "mk", "badscroll"},
        k4 \in ErrorKinds}

\* The same trees with deferred nodes with and without a layout, nested (c)
\* and at the top level (b).
StubMothers ==
    {[top |-> <<1, 5>>,
      nodes |-> <<MakeNode("plain", <<"a">>, <<2, 4>>),
                  MakeNode(k2, <<"c">>, <<3>>),
                  MakeNode("plain", <<"g">>, <<>>),
                  MakeNode("plain", <<"d">>, <<>>),
                  MakeNode(k5, <<"b">>, <<>>)>>] :
        k2 \in {"stub", "barestub"},
        k5 \in {"plain", "stub", "barestub", "stubref", "order"}}

\* The same trees with option menus: a and b bound to the same name, c a
\* placeholder or a menu without a bound name, d with post-steps.
OptionMothers ==
    {[top |-> <<1, 5>>,
      nodes |-> <<MakeNode("opt", <<"a">>, <<2, 4>>),
                  MakeNode(k2, <<"c">>, <<3>>),
                  MakeNode("plain", <<"g">>, <<>>),
                  MakeNode("mk", <<"d">>, <<>>),
                  MakeNode("opt", <<"b">>, <<>>)>>] :
        k2 \in {"stub", "optplain"}}

\* The same trees as the caller of a whole session sees them: with scroll
\* flags and references among the keywords, with and without a placeholder.
CallerMothers ==
    {[top |-> <<1, 5>>,
      nodes |-> <<MakeNode(k1, <<"a">>, <<2, 4>>),
                  MakeNode(k2, <<"c">>, <<3>>),
                  MakeNode("plain", <<"g">>, <<>>),
                  MakeNode("mk", <<"d">>, <<>>),
                  MakeNode("plain", <<"b">>, <<>>)>>] :
        k1 \in {"var", "scroll"},
        k2 \in {"stub", "mk"}}

Mothers == SingleMothers \cup TreeMothers \cup ErrorMothers \cup StubMothers

\* -------------------------------------------------------------- the state
VARIABLES
    mother,        \* self._mother: the declarative tree (its keyword mappings are mutable)
    memory,        \* self.memory
    variable_map,  \* self._variable_map: path -> name in memory
    gui,           \* self.gui: the Registry, path -> object
    stack,         \* the activations of _build, innermost last
    pc,            \* the statement build() is at
    cur,           \* the locals of the loop body of the innermost _build
    log,           \* history: the calls made so far, in order
    nobj,          \* the number of objects created so far
    err,           \* the exception build() raised, if any
    conf,          \* the options set on widgets: <<object, option>> -> value
    menus,         \* the entries of the menu of each option menu, by object
    cells,         \* the values set on variables, by object
    oplog,         \* history: the calls made on the object after build()
    caller         \* what the caller passed to TkFire(core, memory, mother) and holds

vars == <<mother, memory, variable_map, gui, stack, pc, cur, log, nobj, err,
          conf, menus, cells, oplog, caller>>

\* TkFire.__init__ (src/tkfire.py:91-101).  A Memory is kept as it is, so
\* that self.memory and the caller's memory are one object; anything else
\* is copied into a new Memory, and the caller's object is written by
\* nothing.  The mother is kept as it is.
Passed(kind, m) == [kind |-> kind, dict |-> Memory0, mother |-> m]
\* The contents of the memory object the caller holds.
CallerMemory == IF caller.kind = "Memory" THEN memory ELSE caller.dict

\* The exception raised: its class, the path its message names, the class of
\* its cause and the statement that raised it.
NoErr == [kind |-> "", path |-> <<>>, cause |-> "", where |-> ""]
Raise(kind, path, cause) == [kind |-> kind, path |-> path, cause |-> cause, where |-> pc]

CurInit ==
    [node |-> 0, child_path |-> <<>>, widget_type |-> NoneV, widget_args |-> <<>>,
     layout_type |-> NoneV, layout_args |-> <<>>, has_scroll_y |-> FALSE,
     has_scroll_x |-> FALSE, j |-> 0, k |-> 0, new_args |-> <<>>, replacer |-> <<>>,
     method_args |-> <<>>]

Top == stack[Len(stack)]
Pop == SubSeq(stack, 1, Len(stack) - 1)
SetTop(f) == [stack EXCEPT ![Len(stack)] = f]

\* Mutant of LayoutOf: the layout is read as child_spec[LAYOUT], without a
\* default.
LayoutOfRequired(n) == IF LAYOUT \in n.tags THEN n.LAYOUT ELSE <<>>

\* child_spec.get(LAYOUT, [None, (), {}]), child_spec.get(POST, []),
\* child_spec.get(CHILDREN, None) (src/tkfire.py:171-173)
LayoutOf(n) == IF LAYOUT \in n.tags THEN n.LAYOUT ELSE NoLayout
PostsOf(n) == IF POST \in n.tags THEN n.POST ELSE <<>>
ChildrenOf(n) == IF CHILDREN \in n.tags THEN n.CHILDREN ELSE <<>>

\* The (args, kwargs) a resolution works on: those of the node's TYPE, of its
\* LAYOUT, or of its j-th post-step.  The keyword mapping is the mother's own
\* dictionary, so what is set in it is set in the mother.
Part(p) == IF p \in {"type_args", "type_kwargs"} THEN TYPE
           ELSE IF p \in {"layout_args", "layout_kwargs"} THEN LAYOUT ELSE POST
SpecOf(m, id, part, j) ==
    IF part = TYPE THEN m.nodes[id].TYPE
    ELSE IF part = LAYOUT THEN LayoutOf(m.nodes[id])
    ELSE m.nodes[id].POST[j]
SetKwargs(m, id, part, j, kw) ==
    IF part = TYPE THEN [m EXCEPT !.nodes[id].TYPE[3] = kw]
    ELSE IF part = LAYOUT
         THEN IF LAYOUT \in m.nodes[id].tags THEN [m EXCEPT !.nodes[id].LAYOUT[3] = kw] ELSE m
    ELSE [m EXCEPT !.nodes[id].POST[j][3] = kw]

IsStr(v, s) == v.tag = "lit" /\ v.v = s

Init ==
    /\ mother \in Mothers
    /\ memory = Memory0
    /\ variable_map = <<>>
    /\ gui = <<>>
    /\ stack = <<>>
    /\ pc = "idle"
    /\ cur = CurInit
    /\ log = <<>>
    /\ nobj = 0
    /\ err = NoErr
    /\ conf = <<>>
    /\ menus = <<>>
    /\ cells = <<>>
    /\ oplog = <<>>
    /\ caller = Passed("Memory", mother)

\* build (src/tkfire.py:340-341): self._build("", self._mother)
Build ==
    /\ pc = "idle"
    /\ stack' = <<[parent |-> <<>>, structure |-> mother.top, root |-> NoneV,
                   path |-> <<>>, i |-> 0]>>
    /\ pc' = "enter"
    /\ UNCHANGED <<mother, memory, variable_map, gui, cur, log, nobj, err,
                 conf, menus, cells, oplog>>
    /\ UNCHANGED caller

\* Mutant of RootFor: every node is given the core as its root.
RootForCore(parent) == Core

\* root and path of an activation of _build (src/tkfire.py:297-302)
RootFor(parent) == IF parent # <<>> THEN gui[parent] ELSE Core
PathPrefix(parent) == IF parent # <<>> THEN parent \o <<Bang>> ELSE <<>>

\* Mutant of ChildAt: the mapping is walked from its last item to its first.
ChildAtReversed(structure, i) == structure[Len(structure) + 1 - i]

\* The i-th item of structure.items(): a mapping iterates in declaration
\* order (src/tkfire.py:307)
ChildAt(structure, i) == structure[i]

\* _build, up to the loop (src/tkfire.py:292-304)
BuildEnter ==
    /\ pc = "enter"
    /\ IF Top.structure = <<>>
       THEN /\ stack' = Pop
            /\ pc' = IF Len(stack) = 1 THEN "done" ELSE "loop"
            /\ err' = err
       ELSE IF Top.parent # <<>> /\ Top.parent \notin DOMAIN gui
       THEN /\ pc' = "error"
            /\ err' = Raise("TkFireStructuralError", Top.parent, "KeyError")
            /\ stack' = stack
       ELSE /\ stack' = SetTop([Top EXCEPT !.root = RootFor(Top.parent),
                                           !.path = PathPrefix(Top.parent),
                                           !.i = 1])
            /\ pc' = "loop"
            /\ err' = err
    /\ UNCHANGED <<mother, memory, variable_map, gui, cur, log, nobj,
                 conf, menus, cells, oplog>>
    /\ UNCHANGED caller

\* for child_name, child_spec in structure.items(): child_path = path +
\* child_name (src/tkfire.py:307-309)
NextChild ==
    /\ pc = "loop"
    /\ Top.i <= Len(Top.structure)
    /\ LET id == ChildAt(Top.structure, Top.i)
       IN /\ cur' = [CurInit EXCEPT !.node = id,
                                    !.child_path = Top.path \o mother.nodes[id].name]
          /\ log' = Append(log, [ev |-> "visit", path |-> Top.path \o mother.nodes[id].name])
    /\ pc' = "parse"
    /\ UNCHANGED <<mother, memory, variable_map, gui, stack, nobj, err,
                 conf, menus, cells, oplog>>
    /\ UNCHANGED caller

\* the loop of _build is exhausted: _build returns (and build, from the
\* outermost activation: src/tkfire.py:342)
BuildReturn ==
    /\ pc = "loop"
    /\ Top.i > Len(Top.structure)
    /\ stack' = Pop
    /\ pc' = IF Len(stack) = 1 THEN "done" ELSE "loop"
    /\ UNCHANGED <<mother, memory, variable_map, gui, cur, log, nobj, err,
                 conf, menus, cells, oplog>>
    /\ UNCHANGED caller

\* _validate_specifications, the destructuring (src/tkfire.py:169-176)
ParseSpecification ==
    /\ pc = "parse"
    /\ LET n == mother.nodes[cur.node]
       IN IF TYPE \notin n.tags
          THEN /\ pc' = "error"
               /\ err' = Raise("TkFireParseError", cur.child_path, "KeyError")
               /\ cur' = cur
          ELSE IF Len(n.TYPE) # 3
          THEN /\ pc' = "error"
               /\ err' = Raise("TkFireParseError", cur.child_path, "ValueError")
               /\ cur' = cur
          ELSE IF LAYOUT \in n.nones
          THEN /\ pc' = "error"
               /\ err' = Raise("TkFireParseError", cur.child_path, "TypeError")
               /\ cur' = cur
          ELSE IF Len(LayoutOf(n)) # 3
          THEN /\ pc' = "error"
               /\ err' = Raise("TkFireParseError", cur.child_path, "ValueError")
               /\ cur' = cur
          ELSE /\ cur' = [cur EXCEPT !.widget_type = n.TYPE[1],
                                     !.layout_type = LayoutOf(n)[1],
                                     !.k = 1, !.new_args = <<>>]
               /\ pc' = "type_args"
               /\ err' = err
    /\ UNCHANGED <<mother, memory, variable_map, gui, stack, log, nobj,
                 conf, menus, cells, oplog>>
    /\ UNCHANGED caller

\* The error a failed resolution is re-raised as (src/tkfire.py:181-200,
\* 269-276)
ResolutionError(p) ==
    IF p \in {"post_args", "post_kwargs"} THEN "TkFirePostError" ELSE "TkFireSpecificationError"

\* Mutant of AfterResolution: the type is resolved, then the layout.
AfterResolutionDeclared(p) ==
    CASE p = "type_args" -> "type_kwargs"
      [] p = "type_kwargs" -> "layout_args"
      [] p = "layout_args" -> "layout_kwargs"
      [] p = "layout_kwargs" -> "dispatch"
      [] p = "post_args" -> "post_kwargs"
      [] p = "post_kwargs" -> "post_call"

\* The statement after a resolution (src/tkfire.py:180-200, 268-277)
AfterResolution(p) ==
    CASE p = "type_args" -> "layout_args"
      [] p = "layout_args" -> "type_kwargs"
      [] p = "type_kwargs" -> "layout_kwargs"
      [] p = "layout_kwargs" -> "dispatch"
      [] p = "post_args" -> "post_kwargs"
      [] p = "post_kwargs" -> "post_call"

\* The calls of a resolution as events of the log.
CallEvents(calls) ==
    [h \in 1..Len(calls) |->
        [ev |-> "call", path |-> cur.child_path, part |-> pc, j |-> cur.j,
         name |-> calls[h].name, callee |-> calls[h].callee, root |-> calls[h].root,
         args |-> calls[h].args, kwargs |-> calls[h].kwargs, result |-> calls[h].result]]

\* _sanitize_args (src/tkfire.py:137-165) on the positional arguments of the
\* node's type, of its layout or of its current post-step: one value of the
\* loop, or the return of new_args.
SanitizeArgs ==
    /\ pc \in {"type_args", "layout_args", "post_args"}
    /\ LET sp == SpecOf(mother, cur.node, Part(pc), cur.j)
           args == sp[2]
       IN IF cur.k <= Len(args)
          THEN LET r == SanitizeArgsValue(args[cur.k],
                            [memory |-> memory, variable_map |-> variable_map, nobj |-> nobj,
                             new_args |-> cur.new_args, kwargs |-> sp[3],
                             replacer |-> cur.replacer],
                            cur.child_path, Top.root)
               IN /\ memory' = r.memory
                  /\ variable_map' = r.variable_map
                  /\ nobj' = r.nobj
                  /\ mother' = SetKwargs(mother, cur.node, Part(pc), cur.j, r.kwargs)
                  /\ log' = log \o CallEvents(r.calls)
                  /\ IF r.raised # ""
                     THEN /\ pc' = "error"
                          /\ err' = Raise(ResolutionError(pc), cur.child_path, r.raised)
                          /\ cur' = cur
                     ELSE /\ pc' = pc
                          /\ err' = err
                          /\ cur' = [cur EXCEPT !.k = cur.k + 1, !.new_args = r.new_args]
          ELSE /\ cur' = [cur EXCEPT
                            !.widget_args = IF pc = "type_args" THEN cur.new_args ELSE @,
                            !.layout_args = IF pc = "layout_args" THEN cur.new_args ELSE @,
                            !.method_args = IF pc = "post_args" THEN cur.new_args ELSE @,
                            !.k = 1, !.new_args = <<>>, !.replacer = <<>>]
               /\ log' = Append(log, [ev |-> "resolved", path |-> cur.child_path,
                                      part |-> pc, j |-> cur.j])
               /\ pc' = AfterResolution(pc)
               /\ UNCHANGED <<mother, memory, variable_map, nobj, err>>
    /\ UNCHANGED <<gui, stack,
                 conf, menus, cells, oplog>>
    /\ UNCHANGED caller

\* _sanitize_kwargs (src/tkfire.py:119-135) on the keywords of the node's
\* type, of its layout or of its current post-step: one keyword of the first
\* loop, or the second loop, which writes the replacements into the mapping.
SanitizeKwargs ==
    /\ pc \in {"type_kwargs", "layout_kwargs", "post_kwargs"}
    /\ LET sp == SpecOf(mother, cur.node, Part(pc), cur.j)
           kwargs == sp[3]
       IN IF cur.k <= Len(kwargs)
          THEN LET r == SanitizeKwargsValue(kwargs[cur.k][1], kwargs[cur.k][2],
                            [memory |-> memory, variable_map |-> variable_map, nobj |-> nobj,
                             new_args |-> cur.new_args, kwargs |-> kwargs,
                             replacer |-> cur.replacer],
                            cur.child_path, Top.root)
               IN /\ memory' = r.memory
                  /\ variable_map' = r.variable_map
                  /\ nobj' = r.nobj
                  /\ log' = log \o CallEvents(r.calls)
                  /\ mother' = mother
                  /\ IF r.raised # ""
                     THEN /\ pc' = "error"
                          /\ err' = Raise(ResolutionError(pc), cur.child_path, r.raised)
                          /\ cur' = cur
                     ELSE /\ pc' = pc
                          /\ err' = err
                          /\ cur' = [cur EXCEPT !.k = cur.k + 1, !.replacer = r.replacer]
          ELSE /\ mother' = SetKwargs(mother, cur.node, Part(pc), cur.j,
                                      ApplyReplacer(kwargs, cur.replacer, 1))
               /\ cur' = [cur EXCEPT !.k = 1, !.new_args = <<>>, !.replacer = <<>>]
               /\ log' = Append(log, [ev |-> "resolved", path |-> cur.child_path,
                                      part |-> pc, j |-> cur.j])
               /\ pc' = AfterResolution(pc)
               /\ UNCHANGED <<memory, variable_map, nobj, err>>
    /\ UNCHANGED <<gui, stack,
                 conf, menus, cells, oplog>>
    /\ UNCHANGED caller

\* Mutant of MakeStub: the placeholder is stored and the children of the node
\* are built all the same.
MakeStubRecursing ==
    /\ pc = "dispatch"
    /\ cur.widget_type.tag = "Stub"
    /\ gui' = MapSet(gui, cur.child_path,
                     StubObj(nobj + 1, cur.layout_type, cur.layout_args,
                             LayoutOf(mother.nodes[cur.node])[3]))
    /\ nobj' = nobj + 1
    /\ log' = Append(log, [ev |-> "stub", path |-> cur.child_path,
                           result |-> StubObj(nobj + 1, cur.layout_type, cur.layout_args,
                                              LayoutOf(mother.nodes[cur.node])[3])])
    /\ pc' = "recurse"
    /\ UNCHANGED <<mother, memory, variable_map, stack, cur, err, conf, menus, cells, oplog>>
    /\ UNCHANGED caller

\* if widget_type is Stub: the placeholder (src/tkfire.py:317-319)
MakeStub ==
    /\ pc = "dispatch"
    /\ cur.widget_type.tag = "Stub"
    /\ gui' = MapSet(gui, cur.child_path,
                     StubObj(nobj + 1, cur.layout_type, cur.layout_args,
                             LayoutOf(mother.nodes[cur.node])[3]))
    /\ nobj' = nobj + 1
    /\ log' = Append(log, [ev |-> "stub", path |-> cur.child_path,
                           result |-> StubObj(nobj + 1, cur.layout_type, cur.layout_args,
                                              LayoutOf(mother.nodes[cur.node])[3])])
    /\ stack' = SetTop([Top EXCEPT !.i = Top.i + 1])
    /\ pc' = "loop"
    /\ UNCHANGED <<mother, memory, variable_map, cur, err,
                 conf, menus, cells, oplog>>
    /\ UNCHANGED caller

\* _get_scrolls (src/tkfire.py:206-230, called at 322): a flag among the
\* keywords is popped from them; otherwise its first positional occurrence is
\* popped from the list.
ScrollFlag(args, kwargs, flag) ==
    IF DictHas(kwargs, flag)
    THEN [has |-> TRUE, args |-> args, kwargs |-> DictPop(kwargs, flag)]
    ELSE IF \E i \in 1..Len(args) : IsStr(args[i], flag)
    THEN [has |-> TRUE, kwargs |-> kwargs,
          args |-> SeqPop(args, CHOOSE i \in 1..Len(args) :
                        IsStr(args[i], flag) /\ \A h \in 1..(i - 1) : ~IsStr(args[h], flag))]
    ELSE [has |-> FALSE, args |-> args, kwargs |-> kwargs]

GetScrolls ==
    /\ pc = "dispatch"
    /\ cur.widget_type.tag # "Stub"
    /\ LET y == ScrollFlag(cur.widget_args, mother.nodes[cur.node].TYPE[3], SY)
           x == ScrollFlag(y.args, y.kwargs, SX)
       IN /\ cur' = [cur EXCEPT !.has_scroll_y = y.has, !.has_scroll_x = x.has,
                                !.widget_args = x.args]
          /\ mother' = SetKwargs(mother, cur.node, TYPE, 0, x.kwargs)
    /\ pc' = "generate"
    /\ UNCHANGED <<memory, variable_map, gui, stack, log, nobj, err,
                 conf, menus, cells, oplog>>
    /\ UNCHANGED caller

\* The methods the toolkit's widgets offer to a layout or a post-step.
WidgetMethods == {"pack", "grid", "place", "config", "insert"}

\* str(opt) for the option values of the model: a string is its own text,
\* an integer its decimal digits.
IntV(n) == [tag |-> "int", n |-> n]
Str(v) == IF v.tag = "int" THEN Lit(<<"0", "1", "2", "3">>[v.n + 1]) ELSE v

\* One entry of a menu: its label and its command, which sets a variable to
\* a value (src/tkfire.py:387-389).
Entry(label, variable, value) == [label |-> label, variable |-> variable, value |-> value]

\* The menu of a widget the toolkit constructs: an option menu made as
\* OptionMenu(master, variable, *values) starts with one entry per value;
\* any other widget has no menu.
NewMenus(generator, args, n) ==
    IF generator = OptionMenu /\ Len(args) >= 1
    THEN MapSet(menus, n, [i \in 1..(Len(args) - 1) |->
                              Entry(Str(args[i + 1]), args[1], args[i + 1])])
    ELSE menus

\* _generate (src/tkfire.py:248-253, called at 325):
\* self.gui[child_path] = generator(root, *args, **kwargs)
Generate ==
    /\ pc = "generate"
    /\ IF Callable(cur.widget_type)
       THEN /\ gui' = MapSet(gui, cur.child_path, CallResult(cur.widget_type, nobj + 1))
            /\ nobj' = nobj + 1
            /\ log' = Append(log, [ev |-> "construct", path |-> cur.child_path,
                                   generator |-> cur.widget_type,
                                   root |-> Top.root,
                                   args |-> cur.widget_args,
                                   kwargs |-> mother.nodes[cur.node].TYPE[3],
                                   result |-> CallResult(cur.widget_type, nobj + 1)])
            /\ menus' = NewMenus(cur.widget_type, cur.widget_args, nobj + 1)
            /\ pc' = "render"
            /\ err' = err
       ELSE /\ pc' = "error"
            /\ err' = Raise("TkFireRenderError", cur.child_path, "TypeError")
            /\ UNCHANGED <<gui, nobj, log, menus>>
    /\ UNCHANGED <<mother, memory, variable_map, stack, cur,
                 conf, cells, oplog>>
    /\ UNCHANGED caller

\* Mutant of AfterStep: the post-steps are skipped.
AfterStepSkip(n, j) == "bind"

\* The statement after the layout and after each post-step: the next
\* post-step, or the scrollbars (src/tkfire.py:331-334)
AfterStep(n, j) == IF j + 1 <= Len(PostsOf(n)) THEN "post_args" ELSE "bind"

\* _render (src/tkfire.py:255-264, called at 328)
Render ==
    /\ pc = "render"
    /\ IF cur.layout_type.tag # "lit"
       THEN /\ log' = log
            /\ pc' = AfterStep(mother.nodes[cur.node], 0)
            /\ err' = err
            /\ cur' = [cur EXCEPT !.j = 1, !.k = 1]
       ELSE IF cur.layout_type.v \in WidgetMethods
       THEN /\ log' = Append(log, [ev |-> "layout", path |-> cur.child_path,
                                   widget |-> gui[cur.child_path],
                                   method |-> cur.layout_type.v,
                                   args |-> cur.layout_args,
                                   kwargs |-> LayoutOf(mother.nodes[cur.node])[3]])
            /\ pc' = AfterStep(mother.nodes[cur.node], 0)
            /\ err' = err
            /\ cur' = [cur EXCEPT !.j = 1, !.k = 1]
       ELSE /\ pc' = "error"
            /\ err' = Raise("TkFireRenderError", cur.child_path, "AttributeError")
            /\ UNCHANGED <<log, cur>>
    /\ UNCHANGED <<mother, memory, variable_map, gui, stack, nobj,
                 conf, menus, cells, oplog>>
    /\ UNCHANGED caller

\* _execute_post, the call (src/tkfire.py:277-281), and the step of the loop
\* over post_methods (src/tkfire.py:331)
ExecutePost ==
    /\ pc = "post_call"
    /\ LET sp == mother.nodes[cur.node].POST[cur.j]
       IN IF sp[1].tag = "lit" /\ sp[1].v \in WidgetMethods
          THEN /\ log' = Append(log, [ev |-> "post", path |-> cur.child_path, j |-> cur.j,
                                      widget |-> gui[cur.child_path],
                                      method |-> sp[1].v,
                                      args |-> cur.method_args,
                                      kwargs |-> sp[3]])
               /\ pc' = AfterStep(mother.nodes[cur.node], cur.j)
               /\ cur' = [cur EXCEPT !.j = cur.j + 1, !.k = 1]
               /\ err' = err
          ELSE /\ pc' = "error"
               /\ err' = Raise("TkFirePostError", cur.child_path, "AttributeError")
               /\ UNCHANGED <<log, cur>>
    /\ UNCHANGED <<mother, memory, variable_map, gui, stack, nobj,
                 conf, menus, cells, oplog>>
    /\ UNCHANGED caller

\* Mutant of ScrollyKey: the vertical scrollbar is stored at the key of the
\* node itself.
ScrollyKeySelf(child_path) == child_path

\* The keys of the scrollbar companions (src/tkfire.py:235, 240)
ScrollyKey(child_path) == child_path \o <<Bang, "Scrolly">>
ScrollxKey(child_path) == child_path \o <<Bang, "Scrollx">>

\* A bound method of an object, as in self.gui[child_path].yview
Bound(obj, method) == [tag |-> "method", of |-> obj, name |-> method]

\* _bind_scrolls (src/tkfire.py:232-246, called at 334).  Every widget is
\* read from the Registry at the time of its statement.
\* The classes of the model whose instances have no option yscrollcommand or
\* xscrollcommand: setting it raises (tkinter.TclError, unknown option).
NoScrollCommand == {"Label"}

BindScrolls ==
    /\ pc = "bind"
    /\ LET ny == IF cur.has_scroll_y THEN 1 ELSE 0
           nx == IF cur.has_scroll_x THEN 1 ELSE 0
           sy == CallResult(Scrollbar, nobj + 1)
           sx == CallResult(Scrollbar, nobj + ny + 1)
           g1 == IF cur.has_scroll_y THEN MapSet(gui, ScrollyKey(cur.child_path), sy) ELSE gui
           g2 == IF cur.has_scroll_x THEN MapSet(g1, ScrollxKey(cur.child_path), sx) ELSE g1
           e1 == IF cur.has_scroll_y
                 THEN <<[ev |-> "scroll", path |-> cur.child_path, key |-> ScrollyKey(cur.child_path),
                         root |-> Top.root, widget |-> gui[cur.child_path], result |-> sy]>>
                 ELSE <<>>
           e2 == IF cur.has_scroll_x
                 THEN <<[ev |-> "scroll", path |-> cur.child_path, key |-> ScrollxKey(cur.child_path),
                         root |-> Top.root, widget |-> g1[cur.child_path], result |-> sx]>>
                 ELSE <<>>
           c1 == IF cur.has_scroll_y
                 THEN MapSet(MapSet(conf, <<g1[cur.child_path].id, "yscrollcommand">>,
                                    Bound(g1[ScrollyKey(cur.child_path)], "set")),
                             <<g1[ScrollyKey(cur.child_path)].id, "command">>,
                             Bound(g1[cur.child_path], "yview"))
                 ELSE conf
           c2 == IF cur.has_scroll_x
                 THEN MapSet(MapSet(c1, <<g2[cur.child_path].id, "xscrollcommand">>,
                                    Bound(g2[ScrollxKey(cur.child_path)], "set")),
                             <<g2[ScrollxKey(cur.child_path)].id, "command">>,
                             Bound(g2[cur.child_path], "xview"))
                 ELSE c1
           bind == [ev |-> "bind", path |-> cur.child_path,
                    y |-> cur.has_scroll_y, x |-> cur.has_scroll_x]
       IN IF (cur.has_scroll_y \/ cur.has_scroll_x)
             /\ gui[cur.child_path].by \in NoScrollCommand
          THEN \* the first scrollbar requested is stored, then the
               \* assignment of the scroll command raises
               /\ gui' = IF cur.has_scroll_y THEN g1 ELSE g2
               /\ nobj' = nobj + 1
               /\ log' = Append(log, bind) \o (IF cur.has_scroll_y THEN e1 ELSE e2)
               /\ pc' = "error"
               /\ err' = Raise("TkFireSpecificationError", cur.child_path, "TclError")
               /\ UNCHANGED conf
          ELSE /\ gui' = g2
               /\ conf' = c2
               /\ nobj' = nobj + ny + nx
               /\ log' = Append(log, bind) \o e1 \o e2
               /\ pc' = "recurse"
               /\ UNCHANGED err
    /\ UNCHANGED <<mother, memory, variable_map, stack, cur, menus, cells, oplog>>
    /\ UNCHANGED caller

\* self._build(child_path, grandchildren) (src/tkfire.py:336); the loop of the
\* calling activation goes on with the next child when it returns.
Recurse ==
    /\ pc = "recurse"
    /\ stack' = Append(SetTop([Top EXCEPT !.i = Top.i + 1]),
                       [parent |-> cur.child_path,
                        structure |-> ChildrenOf(mother.nodes[cur.node]),
                        root |-> NoneV, path |-> <<>>, i |-> 0])
    /\ pc' = "enter"
    /\ UNCHANGED <<mother, memory, variable_map, gui, cur, log, nobj, err,
                 conf, menus, cells, oplog>>
    /\ UNCHANGED caller

\* path.rsplit("!", 1) (src/tkfire.py:404): the place of the last delimiter
\* of a path (0 when it has none, and rsplit returns one part only), and the
\* part before it.
LastBang(p) == IF \E i \in 1..Len(p) : p[i] = Bang
               THEN CHOOSE i \in 1..Len(p) : p[i] = Bang /\ \A h \in (i + 1)..Len(p) : p[h] # Bang
               ELSE 0
ParentPath(p) == IF LastBang(p) = 0 THEN <<>> ELSE SubSeq(p, 1, LastBang(p) - 1)

\* The calls of build_stub the caller makes: a widget class with a keyword,
\* one with a positional argument, and a name that is not callable.
StubCalls ==
    {[generator |-> Frame, args |-> <<>>, kwargs |-> << <<"text", Lit("lit")>> >>],
     [generator |-> Text, args |-> <<Lit("lit")>>, kwargs |-> <<>>],
     [generator |-> Lit("Frame"), args |-> <<>>, kwargs |-> <<>>]}

\* build_stub(path, generator, *args, **kwargs) (src/tkfire.py:391-413) for a
\* path that holds a placeholder, after build() has returned.  The two parts
\* of the path are unpacked before anything is constructed; _generate stores
\* the new widget; the layout method is looked up on it and called.  The
\* call is recorded with the parent it used, the widget stored, the layout
\* calls made, what it returned and what it raised.
StubOutcome(path, call) ==
    LET layout == gui[path].layout
        made == CallResult(call.generator, nobj + 1)
        rec == [op |-> "build_stub", path |-> path, generator |-> call.generator,
                args |-> call.args, kwargs |-> call.kwargs, parent |-> NoneV,
                result |-> NoneV, layouts |-> <<>>, returned |-> NoneV, raised |-> ""]
    IN IF gui[path].tag # "stub"
       THEN \* widget.layout of a widget that is no Stub
            [gui |-> gui, nobj |-> nobj, kind |-> "AttributeError", cause |-> "AttributeError",
             rec |-> [rec EXCEPT !.raised = "AttributeError"]]
       ELSE IF LastBang(path) = 0
       THEN [gui |-> gui, nobj |-> nobj, kind |-> "ValueError", cause |-> "ValueError",
             rec |-> [rec EXCEPT !.raised = "ValueError"]]
       ELSE IF ~Callable(call.generator)
       THEN [gui |-> gui, nobj |-> nobj, kind |-> "TkFireRenderError", cause |-> "TypeError",
             rec |-> [rec EXCEPT !.parent = gui[ParentPath(path)],
                                 !.raised = "TkFireRenderError"]]
       ELSE IF layout[1].tag # "lit"
       THEN [gui |-> MapSet(gui, path, made), nobj |-> nobj + 1,
             kind |-> "TypeError", cause |-> "TypeError",
             rec |-> [rec EXCEPT !.parent = gui[ParentPath(path)], !.result = made,
                                 !.raised = "TypeError"]]
       ELSE IF layout[1].v \notin WidgetMethods
       THEN [gui |-> MapSet(gui, path, made), nobj |-> nobj + 1,
             kind |-> "AttributeError", cause |-> "AttributeError",
             rec |-> [rec EXCEPT !.parent = gui[ParentPath(path)], !.result = made,
                                 !.raised = "AttributeError"]]
       ELSE [gui |-> MapSet(gui, path, made), nobj |-> nobj + 1, kind |-> "", cause |-> "",
             rec |-> [rec EXCEPT !.parent = gui[ParentPath(path)], !.result = made,
                                 !.layouts = <<[widget |-> made, method |-> layout[1].v,
                                                args |-> layout[2], kwargs |-> layout[3]]>>,
                                 !.returned = made]]

BuildStub ==
    /\ pc \in {"done", "live"}
    /\ \E path \in DOMAIN gui : \E call \in StubCalls :
          /\ gui[path].tag = "stub"
          /\ LET out == StubOutcome(path, call)
             IN /\ gui' = out.gui
                /\ nobj' = out.nobj
                /\ oplog' = Append(oplog, out.rec)
                /\ pc' = IF out.kind = "" THEN "live" ELSE "error"
                /\ err' = IF out.kind = "" THEN err
                          ELSE [kind |-> out.kind, path |-> path, cause |-> out.cause,
                                where |-> "build_stub"]
    /\ UNCHANGED <<mother, memory, variable_map, stack, cur, log, conf, menus, cells>>
    /\ UNCHANGED caller

Next ==
    \/ Build
    \/ BuildStub
    \/ BuildEnter
    \/ NextChild
    \/ BuildReturn
    \/ ParseSpecification
    \/ SanitizeArgs
    \/ SanitizeKwargs
    \/ MakeStub
    \/ GetScrolls
    \/ Generate
    \/ Render
    \/ ExecutePost
    \/ BindScrolls
    \/ Recurse

Spec == Init /\ [][Next]_vars

\* ------------------------------------------------ set_optionmenu_options
\* An iterator (a generator, a map object): a for loop over it yields its
\* elements once, and nothing afterwards.
IterV(items) == [tag |-> "iter", items |-> items]
\* The label a callable option_names returns for an option.
Label_Of(f, opt) == [tag |-> "label", by |-> f.id, of |-> opt]
\* A variable the caller makes and passes as variable=...
OwnVariable == Obj(0 - 1, "inst", FALSE, "StringVar")

\* The arguments of the calls: options, variable and option_names.
OptionInputs == {NoneV, ListV(<<Lit("x"), IntV(1)>>), IterV(<<Lit("x"), IntV(1)>>)}
VariableInputs == {NoneV, OwnVariable}
NameInputs ==
    {NoneV, Factory("namer", FALSE), ListV(<<Lit("a"), Lit("b")>>), ListV(<<Lit("a")>>)}

\* The elements a for loop over v yields, used telling whether v has been
\* iterated over before.
Elements(v, used) == IF v.tag = "iter" /\ used THEN <<>> ELSE v.items

\* zip(options, option_names): as many pairs as the shorter has elements.
Zip(a, b) == [i \in 1..(IF Len(a) < Len(b) THEN Len(a) ELSE Len(b)) |-> <<a[i], b[i]>>]

\* set_optionmenu_options(path, options, variable=..., option_names=...)
\* (src/tkfire.py:361-389).  The menu is read from the widget and cleared;
\* the variable defaults to memory[variable_map[path]]; the labels are made by
\* a first pass over options when option_names is None or callable; the
\* entries are added by a second pass, zipped with the labels.
SetOptionsOutcome(path, options, variable, option_names) ==
    LET w == gui[path]
        rec == [op |-> "set_optionmenu_options", path |-> path, options |-> options,
                variable |-> variable, option_names |-> option_names,
                cell |-> NoneV, raised |-> ""]
        cleared == MapSet(menus, w.id, <<>>)
    IN IF w.tag = "stub"
       THEN [menus |-> menus, rec |-> [rec EXCEPT !.raised = "TypeError"]]
       ELSE IF w.id \notin DOMAIN menus
       THEN [menus |-> menus, rec |-> [rec EXCEPT !.raised = "TclError"]]
       ELSE IF options = NoneV
       THEN [menus |-> cleared, rec |-> rec]
       ELSE IF variable = NoneV /\ path \notin DOMAIN variable_map
       THEN [menus |-> cleared, rec |-> [rec EXCEPT !.raised = "KeyError"]]
       ELSE LET var == IF variable = NoneV THEN memory[variable_map[path]] ELSE variable
                first == Elements(options, FALSE)
                names == IF option_names = NoneV
                         THEN [i \in 1..Len(first) |-> Str(first[i])]
                         ELSE IF Callable(option_names)
                         THEN [i \in 1..Len(first) |-> Label_Of(option_names, first[i])]
                         ELSE option_names.items
                pairs == Zip(Elements(options, option_names = NoneV \/ Callable(option_names)),
                             names)
            IN [menus |-> MapSet(menus, w.id,
                                 [i \in 1..Len(pairs) |-> Entry(pairs[i][2], var, pairs[i][1])]),
                rec |-> [rec EXCEPT !.cell = var]]

\* The paths the calls are made for: those of the option menus and of
\* the placeholders.
OptionPaths ==
    {path \in DOMAIN gui : gui[path].tag = "stub" \/ gui[path].by = OptionMenu.id}

\* The calls of set_optionmenu_options made so far.
SetOptionsCalls == {i \in 1..Len(oplog) : oplog[i].op = "set_optionmenu_options"}

SetOptionmenuOptions ==
    /\ pc \in {"done", "live"}
    /\ Cardinality(SetOptionsCalls) < MaxOps
    /\ \E path \in OptionPaths : \E options \in OptionInputs :
       \E variable \in VariableInputs : \E option_names \in NameInputs :
          LET out == SetOptionsOutcome(path, options, variable, option_names)
          IN /\ menus' = out.menus
             /\ oplog' = Append(oplog, out.rec)
             /\ pc' = IF out.rec.raised = "" THEN "live" ELSE "error"
             /\ err' = IF out.rec.raised = "" THEN err
                       ELSE [kind |-> out.rec.raised, path |-> path,
                             cause |-> out.rec.raised, where |-> "set_optionmenu_options"]
    /\ UNCHANGED <<mother, memory, variable_map, gui, stack, cur, log, nobj, conf, cells>>
    /\ UNCHANGED caller

\* The command of an entry, command=lambda value=opt: variable.set(value)
\* (src/tkfire.py:388-389), run when the user picks the entry.
MenuCommand ==
    /\ pc \in {"done", "live"}
    /\ \E id \in DOMAIN menus : \E i \in 1..Len(menus[id]) :
          /\ menus[id][i].variable.tag = "obj"
          /\ cells' = MapSet(cells, menus[id][i].variable.id, menus[id][i].value)
          /\ oplog' = Append(oplog, [op |-> "pick", menu |-> id, entry |-> i])
    /\ Cardinality({i \in 1..Len(oplog) : oplog[i].op = "pick"}) < MaxPicks
    /\ pc' = "live"
    /\ UNCHANGED <<mother, memory, variable_map, gui, stack, cur, log, nobj, err, conf,
                   menus>>
    /\ UNCHANGED caller

OptionInit ==
    /\ mother \in OptionMothers
    /\ memory = Memory0
    /\ variable_map = <<>>
    /\ gui = <<>>
    /\ stack = <<>>
    /\ pc = "idle"
    /\ cur = CurInit
    /\ log = <<>>
    /\ nobj = 0
    /\ err = NoErr
    /\ conf = <<>>
    /\ menus = <<>>
    /\ cells = <<>>
    /\ oplog = <<>>
    /\ caller = Passed("Memory", mother)

OptionNext ==
    \/ Next
    \/ SetOptionmenuOptions
    \/ MenuCommand

OptionSpec == OptionInit /\ [][OptionNext]_vars

\* ------------------------------------------------------------ the caller
\* TkFire(core, memory, mother) with the memory given as a Memory or as a
\* plain dict (src/main.py:32-37), then build().
CallerInit ==
    /\ mother \in CallerMothers
    /\ memory = Memory0
    /\ variable_map = <<>>
    /\ gui = <<>>
    /\ stack = <<>>
    /\ pc = "idle"
    /\ cur = CurInit
    /\ log = <<>>
    /\ nobj = 0
    /\ err = NoErr
    /\ conf = <<>>
    /\ menus = <<>>
    /\ cells = <<>>
    /\ oplog = <<>>
    /\ \E kind \in {"Memory", "dict"} : caller = Passed(kind, mother)

\* build() called again when it has returned (src/tkfire.py:340-341): the
\* same walk, over the mother, the memory and the Registry as they are now.
BuildAgain ==
    /\ pc \in {"done", "live"}
    /\ Cardinality({i \in 1..Len(oplog) : oplog[i].op = "build"}) < MaxBuilds
    /\ stack' = <<[parent |-> <<>>, structure |-> mother.top, root |-> NoneV,
                   path |-> <<>>, i |-> 0]>>
    /\ oplog' = Append(oplog, [op |-> "build"])
    /\ pc' = "enter"
    /\ UNCHANGED <<mother, memory, variable_map, gui, cur, log, nobj, err,
                 conf, menus, cells, caller>>

\* build_stub (src/tkfire.py:391-413) called for a path that holds a widget.
BuildStubBuilt ==
    /\ pc \in {"done", "live"}
    /\ \E path \in DOMAIN gui : \E call \in StubCalls :
          /\ gui[path].tag # "stub"
          /\ LET out == StubOutcome(path, call)
             IN /\ gui' = out.gui
                /\ nobj' = out.nobj
                /\ oplog' = Append(oplog, out.rec)
                /\ pc' = IF out.kind = "" THEN "live" ELSE "error"
                /\ err' = IF out.kind = "" THEN err
                          ELSE [kind |-> out.kind, path |-> path, cause |-> out.cause,
                                where |-> "build_stub"]
    /\ UNCHANGED <<mother, memory, variable_map, stack, cur, log, conf, menus, cells,
                   caller>>

CallerNext ==
    \/ Next
    \/ BuildAgain
    \/ BuildStubBuilt

CallerSpec == CallerInit /\ [][CallerNext]_vars

\* ------------------------------------------------------ the Dispatcher
\* src/main.py:103 makes a Dispatcher({'YAML_Entry': YamlBox}) and hands it to
\* TkFire; the class itself is not among the sources.  What follows is its
\* contract as the specification states it (section 4.2): generate(item,
\* root, *args, **kwargs) calls item if it is a callable; a string is looked
\* up by name in each namespace of an ordered sequence, the first match wins;
\* failing that, in the custom elements; failing that, the lookup fails with
\* the name, and nothing is constructed.
Namespaces ==
    <<[Frame |-> Factory("tk.Frame", FALSE), Button |-> Factory("tk.Button", FALSE)],
      [ScrolledText |-> Factory("scrolledtext.ScrolledText", FALSE)],
      [Button |-> Factory("ttk.Button", FALSE), Combobox |-> Factory("ttk.Combobox", FALSE)]>>
CustomElements ==
    [YAML_Entry |-> Factory("YamlBox", FALSE), Combobox |-> Factory("custom.Combobox", FALSE)]

\* Mutant of NamespaceSearch: the namespaces are searched from the last to
\* the first.
RECURSIVE NamespaceSearchBackwards(_, _)
NamespaceSearchBackwards(name, i) ==
    IF Len(Namespaces) + 1 - i < 1 THEN NoneV
    ELSE IF name \in DOMAIN Namespaces[Len(Namespaces) + 1 - i]
    THEN Namespaces[Len(Namespaces) + 1 - i][name]
    ELSE NamespaceSearchBackwards(name, i + 1)

\* The search of the namespaces from the i-th on: the first that has the
\* name gives the callable; None when none has it.
RECURSIVE NamespaceSearch(_, _)
NamespaceSearch(name, i) ==
    IF i > Len(Namespaces) THEN NoneV
    ELSE IF name \in DOMAIN Namespaces[i] THEN Namespaces[i][name]
    ELSE NamespaceSearch(name, i + 1)

\* The callable an item stands for, or None when the lookup fails.
DispatcherResolve(item) ==
    IF item.tag # "lit" THEN item
    ELSE IF NamespaceSearch(item.v, 1) # NoneV THEN NamespaceSearch(item.v, 1)
    ELSE IF item.v \in DOMAIN CustomElements THEN CustomElements[item.v]
    ELSE NoneV

\* The constructors the model's nodes name, and the paths they are built at.
DispatchItems ==
    {Frame, Lit("Frame"), Lit("Button"), Lit("ScrolledText"), Lit("Combobox"),
     Lit("YAML_Entry"), Lit("NoSuchWidget")}
DispatchPaths ==
    {<<"panel">>, <<"panel", Bang, "btn">>, <<"panel", Bang, "box">>, <<"panel", Bang, "txt">>}

\* The construction step of a builder that dispatches:
\* Registry[child_path] = Dispatcher.generate(type_constructor, root, *args,
\* **kwargs) (specification, section 4.3, step 2e).
DispatcherGenerate ==
    /\ pc = "dispatching"
    /\ \E item \in DispatchItems : \E path \in DispatchPaths :
          /\ path \notin DOMAIN gui
          /\ ParentPath(path) = <<>> \/ ParentPath(path) \in DOMAIN gui
          /\ LET generator == DispatcherResolve(item)
                 root == IF ParentPath(path) = <<>> THEN Core ELSE gui[ParentPath(path)]
             IN IF generator = NoneV
                THEN /\ pc' = "error"
                     /\ err' = [kind |-> "LookupError", path |-> path, cause |-> item.v,
                                where |-> "generate"]
                     /\ UNCHANGED <<gui, log, nobj>>
                ELSE /\ gui' = MapSet(gui, path, CallResult(generator, nobj + 1))
                     /\ nobj' = nobj + 1
                     /\ log' = Append(log, [ev |-> "construct", path |-> path, item |-> item,
                                            generator |-> generator, root |-> root,
                                            args |-> <<>>,
                                            kwargs |-> << <<"text", Lit("lit")>> >>,
                                            result |-> CallResult(generator, nobj + 1)])
                     /\ pc' = pc
                     /\ err' = err
    /\ UNCHANGED <<mother, memory, variable_map, stack, cur, conf, menus, cells, oplog>>
    /\ UNCHANGED caller

DispatchInit ==
    /\ mother = [top |-> <<>>, nodes |-> <<>>]
    /\ memory = Memory0
    /\ variable_map = <<>>
    /\ gui = <<>>
    /\ stack = <<>>
    /\ pc = "dispatching"
    /\ cur = CurInit
    /\ log = <<>>
    /\ nobj = 0
    /\ err = NoErr
    /\ conf = <<>>
    /\ menus = <<>>
    /\ cells = <<>>
    /\ oplog = <<>>
    /\ caller = Passed("Memory", mother)

DispatchNext == DispatcherGenerate

DispatchSpec == DispatchInit /\ [][DispatchNext]_vars

\* ================================================================ claims
\* The declared tree, read off the mother: the parent of a node, its path
\* (the names of its ancestors and its own, joined by the delimiter), whether
\* it is deferred, and whether build reaches it (no ancestor is deferred).
NodeIds == 1..Len(mother.nodes)
IsChild(id, p) == \E h \in 1..Len(ChildrenOf(mother.nodes[p])) : ChildrenOf(mother.nodes[p])[h] = id
ParentNode(id) == IF \E p \in NodeIds : IsChild(id, p)
                  THEN CHOOSE p \in NodeIds : IsChild(id, p) ELSE 0
RECURSIVE DeclaredPath(_)
DeclaredPath(id) ==
    IF ParentNode(id) = 0 THEN mother.nodes[id].name
    ELSE DeclaredPath(ParentNode(id)) \o <<Bang>> \o mother.nodes[id].name
Deferred(id) == TYPE \in mother.nodes[id].tags /\ mother.nodes[id].TYPE[1].tag = "Stub"
RECURSIVE Reached(_)
Reached(id) ==
    \/ ParentNode(id) = 0
    \/ Reached(ParentNode(id)) /\ ~Deferred(ParentNode(id))
Events(kinds) == {i \in 1..Len(log) : log[i].ev \in kinds}

\* C1: when build() has returned normally, the keys of the Registry are the
\* paths of the declared nodes build visits and one key per scrollbar
\* companion attached, one key each, every key holding the object made for
\* it, and there is no other key.
C1_RegistryKeys ==
    pc = "done" =>
        LET reached == {id \in NodeIds : Reached(id)}
        IN /\ DOMAIN gui = {DeclaredPath(id) : id \in reached}
                             \cup {log[i].key : i \in Events({"scroll"})}
           /\ Cardinality(DOMAIN gui) = Cardinality(reached) + Cardinality(Events({"scroll"}))
           /\ \A i \in Events({"scroll"}) : gui[log[i].key] = log[i].result
           /\ \A i \in Events({"construct", "stub"}) : gui[log[i].path] = log[i].result

\* C2: parent-before-child.  Whenever the constructor of a node is invoked,
\* its first argument is the core for a top-level node and otherwise the
\* object stored in the Registry at the parent's path, which the parent's
\* constructor returned at an earlier call.
C2_ParentBeforeChild ==
    \A i \in Events({"construct"}) :
        LET q == ParentPath(log[i].path)
        IN IF q = <<>> THEN log[i].root = Core
           ELSE /\ \E h \in 1..(i - 1) :
                      /\ log[h].ev = "construct"
                      /\ log[h].path = q
                      /\ log[h].result = log[i].root
                /\ q \in DOMAIN gui
                /\ gui[q] = log[i].root
\* A node two levels below the top has been constructed.
C2_Witness ==
    \E i \in Events({"construct"}) : ParentPath(ParentPath(log[i].path)) # <<>>

\* The siblings of a mapping in declaration order, and the events of a node.
SiblingsOf(p) == IF p = 0 THEN mother.top ELSE ChildrenOf(mother.nodes[p])
DeclaredBefore(A, B) ==
    /\ ParentNode(A) = ParentNode(B)
    /\ LET sibs == SiblingsOf(ParentNode(A))
       IN \E h, l \in 1..Len(sibs) : h < l /\ sibs[h] = A /\ sibs[l] = B
EventsAt(path) == {i \in 1..Len(log) : log[i].path = path}
\* The last step of a node has been made: its placeholder is stored, or its
\* scrollbars have been attached.
Completed(id) ==
    \E i \in EventsAt(DeclaredPath(id)) : log[i].ev \in {"stub", "bind"}

\* C3: sibling order.  When a step of B has been made and A is declared
\* before B in the same mapping, A is completed and every step of A (visit,
\* resolutions and the calls they make, construction, layout, post-steps,
\* scrollbars) was made before every step of B.
C3_SiblingOrder ==
    \A A \in NodeIds : \A B \in NodeIds :
        (DeclaredBefore(A, B) /\ EventsAt(DeclaredPath(B)) # {}) =>
            /\ Completed(A)
            /\ \A i \in EventsAt(DeclaredPath(A)) : \A l \in EventsAt(DeclaredPath(B)) : i < l
\* A later sibling is constructed after an earlier one that ran post-steps
\* and bound a variable.
C3_Witness ==
    \E A \in NodeIds : \E B \in NodeIds :
        /\ DeclaredBefore(A, B)
        /\ \E i \in EventsAt(DeclaredPath(A)) : log[i].ev = "post"
        /\ \E i \in EventsAt(DeclaredPath(A)) : log[i].ev = "call"
        /\ \E i \in EventsAt(DeclaredPath(B)) : log[i].ev = "construct"

\* The node declared at a path, and the place of an event among the steps of
\* its node: the visit, the resolution of type and layout, the construction,
\* the layout call, then for each post-step its resolution and its call, then
\* the scrollbars.
NodeOf(path) == CHOOSE id \in NodeIds : DeclaredPath(id) = path
StepRank(e) ==
    CASE e.ev = "visit" -> 0
      [] e.ev \in {"resolved", "call"} ->
            IF e.part \in {"post_args", "post_kwargs"} THEN 2 + 2 * e.j ELSE 1
      [] e.ev \in {"construct", "stub"} -> 2
      [] e.ev = "layout" -> 3
      [] e.ev = "post" -> 3 + 2 * e.j
      [] e.ev = "bind" -> 6 + 2 * MaxPosts
      [] e.ev = "scroll" -> 7 + 2 * MaxPosts
OnceOnly(e) == e.ev \in {"visit", "construct", "stub", "layout", "post", "bind"}

\* C4: step order within a node.  The steps of one node are made in the
\* order construct, layout call (made if and only if a layout method is
\* declared), post-steps in list order, scrollbars, children; each of them
\* once; and the arguments of post-step j are resolved after the call of
\* post-step j-1 and the resolution ends immediately before the call of
\* post-step j.
C4_StepOrder ==
    /\ \A i \in 1..Len(log) : \A l \in 1..Len(log) :
          (i < l /\ log[i].path = log[l].path) =>
              /\ StepRank(log[i]) <= StepRank(log[l])
              /\ OnceOnly(log[l]) => StepRank(log[i]) < StepRank(log[l])
    /\ \A i \in Events({"layout", "post", "bind"}) :
          LET n == mother.nodes[NodeOf(log[i].path)]
          IN /\ \E h \in 1..(i - 1) : log[h].ev = "construct" /\ log[h].path = log[i].path
             /\ (LayoutOf(n)[1].tag = "lit") <=>
                    (\E h \in 1..i : log[h].ev = "layout" /\ log[h].path = log[i].path
                                       /\ log[h].method = LayoutOf(n)[1].v)
             /\ log[i].ev = "post" =>
                    /\ log[i].j \in 1..Len(PostsOf(n))
                    /\ log[i].method = PostsOf(n)[log[i].j][1].v
                    /\ \A j \in 1..(log[i].j - 1) :
                          \E h \in 1..(i - 1) : /\ log[h].ev = "post"
                                                /\ log[h].path = log[i].path
                                                /\ log[h].j = j
                    /\ log[i - 1] = [ev |-> "resolved", path |-> log[i].path,
                                     part |-> "post_kwargs", j |-> log[i].j]
             /\ log[i].ev = "bind" =>
                    \A j \in 1..Len(PostsOf(n)) :
                        \E h \in 1..(i - 1) : /\ log[h].ev = "post"
                                              /\ log[h].path = log[i].path
                                              /\ log[h].j = j
    /\ \A l \in 1..Len(log) :
          LET q == ParentPath(log[l].path)
          IN q # <<>> =>
                /\ \E i \in 1..(l - 1) : log[i].ev = "bind" /\ log[i].path = q
                /\ \A i \in EventsAt(q) : i < l
\* A node has been constructed, laid out, has run its last post-step after
\* resolving a reference for it, has got a scrollbar, and a child of it has
\* been constructed.
C4_Witness ==
    \E i \in Events({"post"}) :
        /\ log[i].j = MaxPosts
        /\ \E h \in EventsAt(log[i].path) : log[h].ev = "layout"
        /\ \E h \in EventsAt(log[i].path) : log[h].ev = "scroll"
        /\ \E h \in EventsAt(log[i].path) :
              /\ log[h].ev = "call" /\ log[h].j = MaxPosts
              /\ log[h].part \in {"post_args", "post_kwargs"}
        /\ \E h \in Events({"construct"}) : ParentPath(log[h].path) = log[i].path

\* The resolution under way: whether a value of a positional or keyword
\* list is about to be resolved, and that value.
ArgsPhases == {"type_args", "layout_args", "post_args"}
KwargsPhases == {"type_kwargs", "layout_kwargs", "post_kwargs"}
CurSpec == SpecOf(mother, cur.node, Part(pc), cur.j)
AtValue ==
    /\ pc \in ArgsPhases \cup KwargsPhases
    /\ cur.k <= Len(IF pc \in ArgsPhases THEN CurSpec[2] ELSE CurSpec[3])
CurValue == IF pc \in ArgsPhases THEN CurSpec[2][cur.k] ELSE CurSpec[3][cur.k][2]
\* The widget of the parent of the node at a path.
ParentWidget(p) == IF ParentPath(p) = <<>> THEN Core ELSE gui[ParentPath(p)]
Last(s) == s[Len(s)]

\* C5, the step: a constructor-reference to N in a positional or keyword
\* position of the node at P, memory[N] holding a factory F, makes exactly one
\* call, F(parent widget, *ref.args, **ref.kwargs); memory[N] becomes the
\* object returned, a new one; the variable map gets P -> N; nothing else of
\* the memory changes; and the object is what the position resolves to.
C5_Step ==
    (/\ AtValue
     /\ CurValue.tag = "varspec"
     /\ CurValue.name \in DOMAIN memory
     /\ memory[CurValue.name].tag = "factory") =>
        LET N == CurValue.name
            P == cur.child_path
        IN /\ log' = Append(log, [ev |-> "call", path |-> P, part |-> pc, j |-> cur.j,
                                  name |-> N, callee |-> memory[N],
                                  root |-> ParentWidget(P),
                                  args |-> CurValue.args, kwargs |-> CurValue.kwargs,
                                  result |-> memory'[N]])
           /\ memory'[N] = Obj(nobj + 1, "inst", memory[N].makes_callable, memory[N].id)
           /\ \A h \in Events({"call", "construct", "scroll", "stub"}) :
                 log[h].result # memory'[N]
           /\ DOMAIN memory' = DOMAIN memory
           /\ \A x \in DOMAIN memory \ {N} : memory'[x] = memory[x]
           /\ P \in DOMAIN variable_map'
           /\ variable_map'[P] = N
           /\ err' = NoErr
           /\ IF pc \in ArgsPhases
              THEN cur'.new_args = Append(cur.new_args, memory'[N])
              ELSE cur'.replacer = Append(cur.replacer, <<CurSpec[3][cur.k][1], memory'[N]>>)
\* C5, what is passed on: the object a factory returned for a positional
\* reference is among the positional arguments of the constructor, layout or
\* post call the list belongs to, and the one returned for a reference under
\* a keyword is the value of that keyword in that call.
CallOf(i, h) ==
    /\ h > i
    /\ log[h].path = log[i].path
    /\ CASE log[i].part \in {"type_args", "type_kwargs"} -> log[h].ev = "construct"
         [] log[i].part \in {"layout_args", "layout_kwargs"} -> log[h].ev = "layout"
         [] OTHER -> log[h].ev = "post" /\ log[h].j = log[i].j
C5_PassedOn ==
    \A i \in Events({"call"}) : \A h \in 1..Len(log) :
        (log[i].callee.tag = "factory" /\ CallOf(i, h)) =>
            IF log[i].part \in ArgsPhases
            THEN \E a \in 1..Len(log[h].args) : log[h].args[a] = log[i].result
            ELSE \E a \in 1..Len(log[h].kwargs) : log[h].kwargs[a][2] = log[i].result
\* C5: resolution of a constructor-reference whose name holds a factory.
C5_ConstructorReference == [][C5_Step]_vars /\ []C5_PassedOn
\* A factory has been called for a positional reference and for a reference
\* under a keyword of a node below the top level, and the widgets have been
\* constructed with the objects returned.
C5_Witness ==
    \E i \in Events({"call"}) : \E l \in Events({"call"}) :
        /\ log[i].callee.tag = "factory" /\ log[i].part = "type_args"
        /\ log[i].root # Core
        /\ \E h \in Events({"construct"}) : CallOf(i, h)
        /\ log[l].callee.tag = "factory" /\ log[l].part = "post_kwargs"
        /\ \E h \in Events({"post"}) : CallOf(l, h)

\* The positional list a phase resolves, for the node and post-step at hand.
ListAt(ph) == SpecOf(mother, cur.node, Part(ph), cur.j)[2]
\* The calls made for the name N while the list of the phase was resolved.
CallsFor(ph, N) ==
    {i \in Events({"call"}) : /\ log[i].path = cur.child_path
                              /\ log[i].part = ph /\ log[i].j = cur.j
                              /\ log[i].name = N}

\* C6: idempotence within one binding.  When a positional list holds two
\* constructor-references to the same name N and the first of them called
\* the factory stored at N, the second raises nothing, exactly one call has
\* been made for N when the second has been resolved, and the second
\* position receives the object the first received, which is memory[N].
C6_Idempotence ==
    \A ph \in ArgsPhases :
        (pc = ph \/ (pc = "error" /\ err.where = ph)) =>
            \A a \in 1..Len(ListAt(ph)) : \A b \in 1..Len(ListAt(ph)) :
                (/\ a < b
                 /\ ListAt(ph)[a].tag = "varspec"
                 /\ ListAt(ph)[b].tag = "varspec"
                 /\ ListAt(ph)[a].name = ListAt(ph)[b].name
                 /\ \E i \in CallsFor(ph, ListAt(ph)[a].name) : log[i].callee.tag = "factory") =>
                    /\ ~(pc = "error" /\ cur.k = b)
                    /\ (pc = ph /\ cur.k = b + 1) =>
                          /\ Cardinality(CallsFor(ph, ListAt(ph)[a].name)) = 1
                          /\ \A i \in CallsFor(ph, ListAt(ph)[a].name) :
                                /\ Last(cur.new_args) = log[i].result
                                /\ memory[ListAt(ph)[a].name] = log[i].result

\* The value whose resolution raised the error of the state.
FailedValue ==
    LET sp == SpecOf(mother, cur.node, Part(err.where), cur.j)
    IN IF err.where \in ArgsPhases THEN sp[2][cur.k] ELSE sp[3][cur.k][2]

\* C7: last bind wins.  A constructor-reference to a name that a different
\* node has bound before raises nothing, so that build goes on, and
\* memory[N] is the object returned by the latest call made for N.
C7_LastBindWins ==
    /\ (pc = "error" /\ err.where \in ArgsPhases \cup KwargsPhases) =>
          ~(/\ FailedValue.tag = "varspec"
            /\ \E i \in Events({"call"}) : /\ log[i].name = FailedValue.name
                                           /\ log[i].path # cur.child_path)
    /\ \A i \in Events({"call"}) :
          (\A l \in Events({"call"}) : log[l].name = log[i].name => l <= i) =>
              memory[log[i].name] = log[i].result

\* What a positional value other than a constructor-reference or an arity-2
\* reference resolves to.
Expand(value) ==
    IF value.tag = "varg" /\ value.name \in DOMAIN memory
    THEN IF value.unpack = 1 THEN memory[value.name].items ELSE <<memory[value.name]>>
    ELSE IF value.tag = "lit" /\ value.v \in DOMAIN memory
    THEN <<memory[value.v]>>
    ELSE <<value>>
\* out, from pos on, is what the values i .. k-1 of args resolve to, in their
\* order: one object for a constructor-reference, nothing for an arity-2
\* reference, and Expand for every other value.
RECURSIVE Mirrors(_, _, _, _, _)
Mirrors(args, i, k, out, pos) ==
    IF i >= k THEN pos = Len(out) + 1
    ELSE IF args[i].tag = "varspec"
    THEN pos <= Len(out) /\ out[pos].tag = "obj" /\ Mirrors(args, i + 1, k, out, pos + 1)
    ELSE IF args[i].tag = "varg" /\ args[i].name \in DOMAIN memory /\ args[i].unpack = 2
    THEN Mirrors(args, i + 1, k, out, pos)
    ELSE LET e == Expand(args[i])
         IN /\ pos + Len(e) - 1 <= Len(out)
            /\ SubSeq(out, pos, pos + Len(e) - 1) = e
            /\ Mirrors(args, i + 1, k, out, pos + Len(e))

\* C8: positional resolution.  The arguments resolved so far, the positional
\* arguments a resolved type keeps, and those of every layout and post call
\* made are the values of the declared list in their order, where an arity-0
\* reference to a stored name gives the stored value, an arity-1 reference
\* the elements of the stored list in order, a literal equal to a key the
\* value stored under it, and every other value itself.
C8_PositionalResolution ==
    /\ pc \in ArgsPhases => Mirrors(CurSpec[2], 1, cur.k, cur.new_args, 1)
    /\ pc \in {"layout_args", "type_kwargs", "layout_kwargs", "dispatch"} =>
          Mirrors(mother.nodes[cur.node].TYPE[2], 1,
                  Len(mother.nodes[cur.node].TYPE[2]) + 1, cur.widget_args, 1)
    /\ \A i \in Events({"layout"}) :
          LET args == LayoutOf(mother.nodes[NodeOf(log[i].path)])[2]
          IN Mirrors(args, 1, Len(args) + 1, log[i].args, 1)
    /\ \A i \in Events({"post"}) :
          LET args == PostsOf(mother.nodes[NodeOf(log[i].path)])[log[i].j][2]
          IN Mirrors(args, 1, Len(args) + 1, log[i].args, 1)
\* A list of an arity-1 reference followed by a literal equal to a key has
\* been resolved to the two elements of the stored list and the stored
\* callable, and a list of an arity-0 reference to the list itself.
C8_Witness ==
    \/ /\ pc = "dispatch"
       /\ mother.nodes[cur.node].TYPE[2] = <<VarArg("opts", 1), Lit("cmd")>>
       /\ cur.widget_args = <<Lit("x"), Lit("y"), Memory0.cmd>>
    \/ /\ pc = "dispatch"
       /\ mother.nodes[cur.node].TYPE[2] = <<ListV(<<Lit("cmd")>>), VarArg("opts", 0)>>
       /\ cur.widget_args = <<ListV(<<Lit("cmd")>>), Memory0.opts>>

\* C9, the step: an arity-2 reference to a name that holds a mapping M raises
\* nothing, appends no positional argument, and leaves every key of M among
\* the keywords, with the value it had if it was there and with M[k] if not.
C9_Step ==
    (/\ AtValue
     /\ pc \in ArgsPhases
     /\ CurValue.tag = "varg"
     /\ CurValue.unpack = 2
     /\ CurValue.name \in DOMAIN memory
     /\ memory[CurValue.name].tag = "dict") =>
        LET M == memory[CurValue.name].pairs
            before == CurSpec[3]
            after == SpecOf(mother', cur.node, Part(pc), cur.j)[3]
        IN /\ err' = NoErr
           /\ cur'.new_args = cur.new_args
           /\ \A h \in 1..Len(M) :
                 /\ DictHas(after, M[h][1])
                 /\ DictGet(after, M[h][1]) =
                        IF DictHas(before, M[h][1]) THEN DictGet(before, M[h][1])
                        ELSE M[h][2]
\* C9: positional resolution, arity 2.
C9_SetDefault == [][C9_Step]_vars

\* C10, the steps of keyword resolution: a value that is a literal or an
\* argument-reference (of any arity) naming a key of the memory is noted for
\* replacement by the stored value under its keyword, any other value that
\* is no constructor-reference is not; and when the list is through, the
\* keywords are the same in the same order, the noted ones with the stored
\* value and the others with the value they had.
C10_Step ==
    /\ (AtValue /\ pc \in KwargsPhases /\ CurValue.tag # "varspec") =>
          /\ cur'.replacer =
                IF CurValue.tag \in {"lit", "varg"}
                   /\ (IF CurValue.tag = "lit" THEN CurValue.v ELSE CurValue.name) \in DOMAIN memory
                THEN Append(cur.replacer,
                            <<CurSpec[3][cur.k][1],
                              memory[IF CurValue.tag = "lit" THEN CurValue.v ELSE CurValue.name]>>)
                ELSE cur.replacer
          /\ mother' = mother
          /\ memory' = memory
          /\ err' = NoErr
    /\ (~AtValue /\ pc \in KwargsPhases) =>
          LET before == CurSpec[3]
              after == SpecOf(mother', cur.node, Part(pc), cur.j)[3]
          IN /\ Len(after) = Len(before)
             /\ \A i \in 1..Len(before) :
                   /\ after[i][1] = before[i][1]
                   /\ after[i][2] =
                         IF \E r \in 1..Len(cur.replacer) : cur.replacer[r][1] = before[i][1]
                         THEN cur.replacer[CHOOSE r \in 1..Len(cur.replacer) :
                                               cur.replacer[r][1] = before[i][1]][2]
                         ELSE before[i][2]
\* C10, the button: a widget declared with the keyword command is
\* constructed with the callable stored under "cmd" as its command, every
\* keyword it is constructed with is a keyword of its declaration, and build
\* itself never calls the callable.
C10_Command ==
    /\ \A i \in Events({"construct"}) : \A a \in 1..Len(log[i].kwargs) :
          /\ log[i].kwargs[a][1] = "command" => log[i].kwargs[a][2] = Memory0.cmd
          /\ DictHas(mother.nodes[NodeOf(log[i].path)].TYPE[3], log[i].kwargs[a][1])
    /\ \A i \in Events({"call"}) : log[i].callee # Memory0.cmd
\* C10: keyword resolution.
C10_KeywordResolution == [][C10_Step]_vars /\ []C10_Command
\* A widget has been constructed with the stored callable as its command,
\* the stored list in place of an arity-1 reference under a keyword, and a
\* list that is no key left as it was.
C10_Witness ==
    \E i \in Events({"construct"}) :
        log[i].kwargs = << <<"command", Memory0.cmd>>, <<"text", ListV(<<Lit("cmd")>>)>>,
                           <<"values", Memory0.opts>> >>

\* p is the path of a node below the node at path q.
Below(p, q) == Len(p) > Len(q) + 1 /\ SubSeq(p, 1, Len(q) + 1) = q \o <<Bang>>
\* The calls of build_stub made for a path.
StubOps(path) == {i \in 1..Len(oplog) : oplog[i].op = "build_stub" /\ oplog[i].path = path}

\* C11: a deferred node.  Once build() has stored the placeholder of a node
\* declared with the deferred marker, the log has no constructor call, layout
\* call, post-step or scrollbar for the node and no step at all for a node
\* below it, the Registry has no key below the node's path, and, as long as
\* build_stub has not been called for the path, the Registry holds at the
\* path a placeholder with the declared layout method, the declared
\* positional arguments resolved, and the declared keywords.
C11_Deferred ==
    \A id \in NodeIds :
        (Deferred(id) /\ \E i \in EventsAt(DeclaredPath(id)) : log[i].ev = "stub") =>
            LET P == DeclaredPath(id)
                n == mother.nodes[id]
            IN /\ \A i \in EventsAt(P) :
                     log[i].ev \notin {"construct", "layout", "post", "bind", "scroll"}
               /\ \A i \in 1..Len(log) : ~Below(log[i].path, P)
               /\ \A q \in DOMAIN gui : ~Below(q, P)
               /\ StubOps(P) = {} =>
                     /\ P \in DOMAIN gui
                     /\ gui[P].tag = "stub"
                     /\ gui[P].layout[1] = LayoutOf(n)[1]
                     /\ Mirrors(LayoutOf(n)[2], 1, Len(LayoutOf(n)[2]) + 1, gui[P].layout[2], 1)
                     /\ gui[P].layout[3] = LayoutOf(n)[3]
\* build() has returned, a deferred node with a declared child and declared
\* positional layout arguments holds its placeholder, and a node declared
\* after the deferred one has been constructed.
C11_Witness ==
    /\ pc = "done"
    /\ \E id \in NodeIds :
          /\ Deferred(id)
          /\ ChildrenOf(mother.nodes[id]) # <<>>
          /\ StubOps(DeclaredPath(id)) = {}
          /\ gui[DeclaredPath(id)].tag = "stub"
          /\ Len(gui[DeclaredPath(id)].layout[2]) = 2
          /\ \E B \in NodeIds : /\ DeclaredBefore(id, B)
                                /\ \E i \in EventsAt(DeclaredPath(B)) : log[i].ev = "construct"

\* The placeholder build() stored at a path.
PlaceholderAt(path) ==
    log[CHOOSE i \in 1..Len(log) : log[i].ev = "stub" /\ log[i].path = path].result

\* C12: deferred build.  Every call build_stub(path, constructor, ...) for a
\* path that holds a placeholder, top-level or nested, declared with or
\* without a layout, raises nothing, calls the constructor with the object
\* at the path's prefix (the core for the empty prefix), stores what the
\* constructor returns at the path, makes the placeholder's layout call once
\* if a layout method was declared and no layout call if none was, and
\* returns the new widget.
C12_BuildStub ==
    \A i \in 1..Len(oplog) :
        (oplog[i].op = "build_stub" /\ Callable(oplog[i].generator)) =>
            LET o == oplog[i]
                layout == PlaceholderAt(o.path).layout
            IN /\ o.raised = ""
               /\ o.parent = ParentWidget(o.path)
               /\ o.result = CallResult(o.generator, o.result.id)
               /\ gui[o.path] = o.result
               /\ o.returned = o.result
               /\ o.layouts = IF layout[1].tag = "lit"
                              THEN <<[widget |-> o.result, method |-> layout[1].v,
                                      args |-> layout[2], kwargs |-> layout[3]]>>
                              ELSE <<>>
\* C12 for the nested placeholders with a declared layout: there build_stub
\* does what the claim says.
C12_NestedWithLayout ==
    \A i \in 1..Len(oplog) :
        (/\ oplog[i].op = "build_stub"
         /\ Callable(oplog[i].generator)
         /\ ParentPath(oplog[i].path) # <<>>
         /\ PlaceholderAt(oplog[i].path).layout[1].tag = "lit") =>
            /\ oplog[i].raised = ""
            /\ oplog[i].parent = gui[ParentPath(oplog[i].path)]
            /\ gui[oplog[i].path] = oplog[i].result
            /\ oplog[i].returned = oplog[i].result
            /\ Len(oplog[i].layouts) = 1

\* The first namespace that has a name, 0 when none has it.
FirstNamespace(name) ==
    IF \E i \in 1..Len(Namespaces) : name \in DOMAIN Namespaces[i]
    THEN CHOOSE i \in 1..Len(Namespaces) :
            /\ name \in DOMAIN Namespaces[i]
            /\ \A h \in 1..(i - 1) : name \notin DOMAIN Namespaces[h]
    ELSE 0
\* C13, the constructions: every widget constructed for a string name was
\* made by the attribute of that name of the first namespace that has one,
\* and by the custom element of that name when no namespace has one; a widget
\* constructed for a callable was made by that callable; the call got the
\* parent widget first; and the Registry holds what the call returned.
C13_Constructed ==
    \A i \in Events({"construct"}) :
        LET e == log[i]
        IN /\ IF e.item.tag # "lit" THEN e.generator = e.item
              ELSE IF FirstNamespace(e.item.v) # 0
              THEN e.generator = Namespaces[FirstNamespace(e.item.v)][e.item.v]
              ELSE /\ e.item.v \in DOMAIN CustomElements
                   /\ e.generator = CustomElements[e.item.v]
           /\ e.root = ParentWidget(e.path)
           /\ e.result = Obj(e.result.id, "inst", FALSE, e.generator.id)
           /\ gui[e.path] = e.result
\* C13, the failed lookup: a step that ends in the lookup error constructs
\* nothing and leaves the Registry as it was, and the error carries a name
\* that no namespace and no custom element has.
C13_FailedLookup ==
    (pc' = "error" /\ pc # "error") =>
        /\ gui' = gui
        /\ log' = log
        /\ nobj' = nobj
        /\ FirstNamespace(err'.cause) = 0
        /\ err'.cause \notin DOMAIN CustomElements
C14_Step ==
    (pc = "generate" /\ cur.widget_type.tag = "lit") =>
        /\ pc' = "error"
        /\ err'.kind = "TkFireRenderError"
        /\ err'.path = DeclaredPath(cur.node)
        /\ gui' = gui
        /\ log' = log
\* C14, afterwards: the Registry has the entry of every node constructed
\* before and of every scrollbar attached before.
C14_EarlierRemain ==
    (pc = "error" /\ err.where = "generate") =>
        /\ \A i \in Events({"construct", "stub"}) :
              log[i].path \in DOMAIN gui /\ gui[log[i].path] = log[i].result
        /\ \A i \in Events({"scroll"}) :
              log[i].key \in DOMAIN gui /\ gui[log[i].key] = log[i].result
        /\ \A i \in Events({"construct", "stub"}) : log[i].path # err.path
\* C14: a type that is an unresolvable name.
C14_UnresolvableName == [][C14_Step]_vars /\ []C14_EarlierRemain
\* build() has failed at a node whose type is a string after other nodes
\* were constructed and a scrollbar was attached.
C14_Witness ==
    /\ pc = "error"
    /\ err.where = "generate"
    /\ err.kind = "TkFireRenderError"
    /\ mother.nodes[cur.node].TYPE[1] = Lit("NoSuchWidget")
    /\ Events({"scroll"}) # {}
    /\ Cardinality(Events({"construct"})) >= 3
    /\ err.path \notin DOMAIN gui

\* A node specification build() cannot destructure: no TYPE, a TYPE that is
\* not of three elements, a LAYOUT that is None or not of three elements.
Malformed(n) ==
    \/ TYPE \notin n.tags
    \/ Len(n.TYPE) # 3
    \/ LAYOUT \in n.nones
    \/ LAYOUT \in n.tags /\ Len(n.LAYOUT) # 3
\* C15, the step: destructuring a malformed node raises the parse error
\* with the node's path and changes neither the memory, the variable map,
\* the Registry nor the log; destructuring any other node, whichever of
\* LAYOUT, POST and CHILDREN it omits, raises nothing.
C15_Step ==
    pc = "parse" =>
        IF Malformed(mother.nodes[cur.node])
        THEN /\ pc' = "error"
             /\ err'.kind = "TkFireParseError"
             /\ err'.path = DeclaredPath(cur.node)
             /\ UNCHANGED <<memory, variable_map, gui, log, nobj, mother>>
        ELSE /\ pc' = "type_args"
             /\ err' = NoErr
\* C15, afterwards: nothing of the node has been resolved or constructed.
C15_NothingResolved ==
    (pc = "error" /\ err.kind = "TkFireParseError") =>
        /\ \A i \in EventsAt(err.path) : log[i].ev = "visit"
        /\ err.path \notin DOMAIN variable_map
        /\ err.path \notin DOMAIN gui
\* C15: parse errors.
C15_ParseError == [][C15_Step]_vars /\ []C15_NothingResolved
\* build() has failed at a node with the layout None whose type takes a
\* constructor-reference: the factory is still in the memory.
C15_Witness ==
    /\ pc = "error"
    /\ err.kind = "TkFireParseError"
    /\ LAYOUT \in mother.nodes[cur.node].nones
    /\ mother.nodes[cur.node].TYPE[2] = <<VarRef>>
    /\ memory["var"] = Memory0["var"]
    /\ Events({"construct"}) # {}

\* C16: when build() has failed while resolving the positional or keyword
\* arguments of a node's type, layout or post-step, the error is the
\* specification error, with the node's path and the original failure as
\* its cause.
C16_SpecificationError ==
    (pc = "error" /\ err.where \in ArgsPhases \cup KwargsPhases) =>
        /\ err.kind = "TkFireSpecificationError"
        /\ err.path = DeclaredPath(cur.node)
        /\ err.cause # ""
\* The part of C16 that holds: failures of the resolution for the type and
\* the layout are specification errors, those for a post-step are post
\* errors; each with the node's path and its cause.
C16_TypeAndLayout ==
    (pc = "error" /\ err.where \in ArgsPhases \cup KwargsPhases) =>
        /\ err.kind = IF err.where \in {"post_args", "post_kwargs"}
                      THEN "TkFirePostError" ELSE "TkFireSpecificationError"
        /\ err.path = DeclaredPath(cur.node)
        /\ err.cause # ""

\* The nodes of the tree in depth-first declaration order.
RECURSIVE Preorder(_)
Preorder(ids) ==
    IF ids = <<>> THEN <<>>
    ELSE <<Head(ids)>> \o Preorder(ChildrenOf(mother.nodes[Head(ids)])) \o Preorder(Tail(ids))
ComesAfter(B, X) ==
    LET order == Preorder(mother.top)
    IN \E h, l \in 1..Len(order) : h < l /\ order[h] = X /\ order[l] = B
\* C17, the failing step: every entry of the Registry, of the memory and
\* of the variable map is still there after the step that makes build()
\* fail, with its value; the one entry that can differ is the variable-map
\* entry of the failing node itself, which the failing statement writes
\* before it raises.
C17_Step ==
    (pc' = "error" /\ pc \notin {"error", "done", "live"}) =>
        /\ \A k \in DOMAIN gui : k \in DOMAIN gui' /\ gui'[k] = gui[k]
        /\ \A k \in DOMAIN memory : k \in DOMAIN memory' /\ memory'[k] = memory[k]
        /\ \A k \in DOMAIN variable_map :
               /\ k \in DOMAIN variable_map'
               /\ k # cur.child_path => variable_map'[k] = variable_map[k]
\* C17, afterwards: when the failure is in the layout, a post-step or the
\* scrollbar step of X, the Registry holds the widget constructed for X;
\* nothing has been done for a node that comes after X and the Registry
\* has no entry for it.
C17_Aborted ==
    (pc = "error" /\ err.where # "build_stub") =>
        /\ err.where \in {"render", "post_args", "post_kwargs", "post_call", "bind"} =>
               /\ err.path \in DOMAIN gui
               /\ \E i \in EventsAt(err.path) :
                      log[i].ev = "construct" /\ log[i].result = gui[err.path]
        /\ \A B \in NodeIds :
               ComesAfter(B, cur.node) =>
                   /\ EventsAt(DeclaredPath(B)) = {}
                   /\ DeclaredPath(B) \notin DOMAIN gui
                   /\ DeclaredPath(B) \notin DOMAIN variable_map
Occurrences(args, kwargs, flag) ==
    Cardinality({i \in 1..Len(args) : IsStr(args[i], flag)})
        + (IF DictHas(kwargs, flag) THEN 1 ELSE 0)
\* C18, the step that reads the flags: afterwards neither the positional
\* arguments nor the keywords of the constructor hold a flag, and each
\* boolean is true exactly when its flag occurred.
C18_Step ==
    (pc = "dispatch" /\ pc' = "generate") =>
        LET kwargs == mother.nodes[cur.node].TYPE[3]
            kwargs2 == mother'.nodes[cur.node].TYPE[3]
        IN /\ \A flag \in {SY, SX} : Occurrences(cur'.widget_args, kwargs2, flag) = 0
           /\ cur'.has_scroll_y = (Occurrences(cur.widget_args, kwargs, SY) > 0)
           /\ cur'.has_scroll_x = (Occurrences(cur.widget_args, kwargs, SX) > 0)
\* C18, the constructor calls: none gets a flag.
C18_Constructor ==
    \A i \in Events({"construct"}) :
        \A flag \in {SY, SX} : Occurrences(log[i].args, log[i].kwargs, flag) = 0
\* C18: the scroll flags are never forwarded.
C18_FlagsStripped == [][C18_Step]_vars /\ []C18_Constructor
\* The part of C18 that holds: a flag that occurs once is removed, and the
\* booleans are true exactly when their flags occurred.
C18_GivenOnce ==
    (pc = "dispatch" /\ pc' = "generate") =>
        LET kwargs == mother.nodes[cur.node].TYPE[3]
            kwargs2 == mother'.nodes[cur.node].TYPE[3]
        IN /\ \A flag \in {SY, SX} :
                  Occurrences(cur'.widget_args, kwargs2, flag)
                      = IF Occurrences(cur.widget_args, kwargs, flag) = 0 THEN 0
                        ELSE Occurrences(cur.widget_args, kwargs, flag) - 1
           /\ cur'.has_scroll_y = (Occurrences(cur.widget_args, kwargs, SY) > 0)
           /\ cur'.has_scroll_x = (Occurrences(cur.widget_args, kwargs, SX) > 0)
C18_OnceRemoved == [][C18_GivenOnce]_vars

\* The nodes whose scrollbar step has been made without failing.
Bound_Nodes ==
    {i \in Events({"bind"}) : ~(pc = "error" /\ err.where = "bind" /\ err.path = log[i].path)}
\* The companion of the node at a path, stored at a key: constructed with
\* the widget of the node's parent, and wired to the node both ways.
Companion(P, key, set_option, view) ==
    \E h \in Events({"scroll"}) :
        /\ log[h].path = P /\ log[h].key = key
        /\ log[h].root = ParentWidget(P)
        /\ log[h].root # log[h].widget
        /\ <<log[h].widget.id, set_option>> \in DOMAIN conf
        /\ conf[<<log[h].widget.id, set_option>>] = Bound(log[h].result, "set")
        /\ <<log[h].result.id, "command">> \in DOMAIN conf
        /\ conf[<<log[h].result.id, "command">>] = Bound(log[h].widget, view)
\* C19: for every built node at P, the Registry has the key P!Scrolly
\* exactly when the vertical scrollbar was requested and P!Scrollx exactly
\* when the horizontal one was; each companion has the parent widget of the
\* node as its parent and is wired to the node.
C19_Attachment ==
    \A i \in Bound_Nodes :
        LET P == log[i].path
        IN /\ (ScrollyKey(P) \in DOMAIN gui) = log[i].y
           /\ (ScrollxKey(P) \in DOMAIN gui) = log[i].x
           /\ log[i].y => Companion(P, ScrollyKey(P), "yscrollcommand", "yview")
           /\ log[i].x => Companion(P, ScrollxKey(P), "xscrollcommand", "xview")
\* The part of C19 that holds: a requested companion is stored when it is
\* attached, with the parent widget as parent and wired both ways; and when
\* no child of the node is named Scrolly or Scrollx, the keys are there
\* exactly when requested.
C19_Companions ==
    \A i \in Bound_Nodes :
        LET P == log[i].path
            named == \E id \in NodeIds :
                         DeclaredPath(id) \in {ScrollyKey(P), ScrollxKey(P)}
        IN /\ log[i].y => Companion(P, ScrollyKey(P), "yscrollcommand", "yview")
           /\ log[i].x => Companion(P, ScrollxKey(P), "xscrollcommand", "xview")
           /\ ~named => /\ (ScrollyKey(P) \in DOMAIN gui) = log[i].y
                        /\ (ScrollxKey(P) \in DOMAIN gui) = log[i].x

\* The call of set_optionmenu_options a step makes, if it makes one.
SetOptionsStep ==
    /\ Len(oplog') = Len(oplog) + 1
    /\ Last(oplog').op = "set_optionmenu_options"
\* The entries the call recorded as rec has to leave in the menu: one per
\* element of options, in order, labelled str(option), option_names(option)
\* or the matching element of option_names, each setting the bound cell to
\* its option.
EntriesFor(rec) ==
    LET opts == IF rec.options = NoneV THEN <<>> ELSE rec.options.items
        cell == IF rec.variable # NoneV THEN rec.variable
                ELSE memory[variable_map[rec.path]]
    IN [i \in 1..Len(opts) |->
           Entry(IF rec.option_names = NoneV THEN Str(opts[i])
                 ELSE IF rec.option_names.tag = "factory"
                 THEN Label_Of(rec.option_names, opts[i])
                 ELSE rec.option_names.items[i],
                 cell, opts[i])]
\* option_names has an element for every option.
NamesMatch(rec) ==
    (rec.options # NoneV /\ rec.option_names # NoneV /\ rec.option_names.tag = "list")
        => Len(rec.option_names.items) = Len(rec.options.items)
\* C20, a call for a widget with a menu: the call that raises for want of
\* a bound name leaves the menu empty; any other leaves the entries of
\* EntriesFor, and the other menus as they were.
C20_Call ==
    SetOptionsStep =>
        LET rec == Last(oplog')
            id == gui[rec.path].id
        IN /\ rec.raised = "KeyError" => menus'[id] = <<>>
           /\ (rec.raised = "" /\ NamesMatch(rec)) =>
                  /\ menus'[id] = EntriesFor(rec)
                  /\ \A m \in DOMAIN menus : m # id => menus'[m] = menus[m]
\* C20, picking an entry: the cell of the entry is set to its option.
C20_Pick ==
    (Len(oplog') = Len(oplog) + 1 /\ Last(oplog').op = "pick") =>
        LET e == menus[Last(oplog').menu][Last(oplog').entry]
        IN /\ cells'[e.variable.id] = e.value
           /\ \A c \in DOMAIN cells : c # e.variable.id => cells'[c] = cells[c]
\* C20: set_optionmenu_options.
C20_SetOptions == [][C20_Call /\ C20_Pick]_vars
\* The part of C20 that holds: the same, for options that can be iterated
\* over more than once, or with the labels given as a list.
C20_CallAgain ==
    (SetOptionsStep /\ ~(Last(oplog').options.tag = "iter"
                         /\ (Last(oplog').option_names = NoneV
                             \/ Last(oplog').option_names.tag = "factory")))
        => C20_Call
C20_Reiterable == [][C20_CallAgain /\ C20_Pick]_vars

\* The last call made for each name bound through a constructor-reference.
LastCalls ==
    {i \in Events({"call"}) : \A l \in Events({"call"}) : log[l].name = log[i].name => l <= i}
\* C21: when build() has returned, for every name N bound through a
\* constructor-reference the memory object the caller passed holds, at N,
\* the instance that the call returned and that TkFire.memory[N] holds.
C21_CallerMemory ==
    pc = "done" =>
        \A i \in LastCalls :
            LET N == log[i].name
            IN /\ memory[N] = log[i].result
               /\ memory[N].tag = "obj"
               /\ CallerMemory[N] = memory[N]
\* The part of C21 that holds: the same, for a caller that passed a
\* Memory.
C21_PassedMemory == caller.kind = "Memory" => C21_CallerMemory

\* The state of the Registry entry of a path.
EntryState(g, P) ==
    IF P \notin DOMAIN g THEN "Unvisited"
    ELSE IF g[P].tag = "stub" THEN "Deferred" ELSE "Built"
\* The step is a call of build_stub.
StubStep ==
    /\ Len(oplog') = Len(oplog) + 1
    /\ Last(oplog').op = "build_stub"
\* C22, every step: an entry leaves Unvisited for Deferred or Built, and
\* only while build() runs; it leaves Deferred only for Built and only by
\* build_stub; a Built entry keeps its widget, and no constructor is called
\* for its path again.
C22_Step ==
    \A P \in (DOMAIN gui) \cup (DOMAIN gui') :
        /\ EntryState(gui, P) = "Unvisited" =>
               /\ EntryState(gui', P) \in {"Deferred", "Built"}
               /\ pc \notin {"done", "live"}
        /\ (EntryState(gui, P) = "Deferred" /\ gui'[P] # gui[P]) =>
               /\ EntryState(gui', P) = "Built"
               /\ StubStep
        /\ EntryState(gui, P) = "Built" =>
               /\ gui'[P] = gui[P]
               /\ \A i \in (1..Len(log')) \ (1..Len(log)) :
                      ~(log'[i].ev = "construct" /\ log'[i].path = P)
\* C22: the state machine of a Registry entry.
C22_StateMachine == [][C22_Step]_vars
\* The part of C22 that holds: the same, until build() is called a second
\* time.
C22_FirstBuild ==
    [][(\A i \in 1..Len(oplog') : oplog'[i].op # "build") => C22_Step]_vars
\* build_stub has been called for a path that holds a widget, and has
\* failed.
C22_BuiltPath ==
    /\ pc = "error"
    /\ err.where = "build_stub"
    /\ EntryState(gui, err.path) = "Built"
    /\ Last(oplog).result = NoneV

\* The constructor-references of a list of values, and the values of a
\* keyword mapping, in their order.
VarSpecsOf(values) == SelectSeq(values, LAMBDA v : v.tag = "varspec")
ValuesOf(kwargs) == [i \in 1..Len(kwargs) |-> kwargs[i][2]]
RECURSIVE PostRefs(_, _)
PostRefs(posts, j) ==
    IF j > Len(posts) THEN <<>>
    ELSE VarSpecsOf(posts[j][2]) \o VarSpecsOf(ValuesOf(posts[j][3])) \o PostRefs(posts, j + 1)
\* The constructor-references declared for a node, in the order type
\* positional, layout positional, type keywords, layout keywords,
\* post-steps in list order (a deferred node has no post-step run).
RefsOf(n) ==
    VarSpecsOf(n.TYPE[2]) \o VarSpecsOf(LayoutOf(n)[2])
        \o VarSpecsOf(ValuesOf(n.TYPE[3])) \o VarSpecsOf(ValuesOf(LayoutOf(n)[3]))
        \o (IF n.TYPE[1].tag = "Stub" THEN <<>> ELSE PostRefs(PostsOf(n), 1))
\* C23: when build() has returned, the variable map has an entry for
\* exactly the paths of the nodes build reached that declare a
\* constructor-reference; the entry is the name of the last of them in the
\* resolution order, and the memory holds an instance under that name.
C23_VariableMap ==
    pc = "done" =>
        /\ DOMAIN variable_map \subseteq {DeclaredPath(id) : id \in NodeIds}
        /\ \A id \in NodeIds :
               LET P == DeclaredPath(id)
                   refs == IF Reached(id) THEN RefsOf(caller.mother.nodes[id]) ELSE <<>>
               IN /\ (P \in DOMAIN variable_map) = (refs # <<>>)
                  /\ refs # <<>> =>
                         /\ variable_map[P] = Last(refs).name
                         /\ memory[variable_map[P]].tag = "obj"
\* build() has returned for a tree with a node whose layout has a positional
\* constructor-reference to one name and whose type has a keyword
\* constructor-reference to another: the entry is the name of the keyword.
C23_Witness ==
    /\ pc = "done"
    /\ \E id \in NodeIds :
           LET n == caller.mother.nodes[id]
           IN /\ Reached(id)
              /\ VarSpecsOf(LayoutOf(n)[2]) # <<>>
              /\ VarSpecsOf(ValuesOf(n.TYPE[3])) # <<>>
              /\ Last(VarSpecsOf(LayoutOf(n)[2])).name = "var"
              /\ variable_map[DeclaredPath(id)] = "mk"

\* C24: when build() has returned, the mother is what was declared.
C24_MotherUnchanged == pc = "done" => mother = caller.mother
\* The part of C24 that holds, in every state: the mother keeps its nodes,
\* their names, tags and children, and the constructor, method and
\* positional arguments of every TYPE, LAYOUT and POST; only keyword
\* mappings differ from what was declared.
SameButKeywords(a, b) ==
    /\ Len(a) = Len(b)
    /\ Len(a) >= 2 => (a[1] = b[1] /\ a[2] = b[2])
    /\ Len(a) < 2 => a = b
C24_Positional ==
    /\ mother.top = caller.mother.top
    /\ Len(mother.nodes) = Len(caller.mother.nodes)
    /\ \A id \in NodeIds :
           LET n == mother.nodes[id]
               d == caller.mother.nodes[id]
           IN /\ n.name = d.name /\ n.tags = d.tags /\ n.nones = d.nones
              /\ n.CHILDREN = d.CHILDREN
              /\ SameButKeywords(n.TYPE, d.TYPE)
              /\ SameButKeywords(n.LAYOUT, d.LAYOUT)
              /\ Len(n.POST) = Len(d.POST)
              /\ \A j \in 1..Len(n.POST) : SameButKeywords(n.POST[j], d.POST[j])

====
